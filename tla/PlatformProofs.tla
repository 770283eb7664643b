----------------------------- MODULE PlatformProofs ------------------------------
(***************************************************************************)
(* What MCPlatform checks on small instances, proved for every number of   *)
(* threads, children, descriptors, streams and entries: one section per    *)
(* component, with the invariant its safety rests on.  The subject of a    *)
(* behaviour takes the steps of its component; the others stay as they     *)
(* are, and so keep their invariants.                                      *)
(***************************************************************************)
EXTENDS MCPlatform, TLAPS, FiniteSetTheorems

WellFounded == INSTANCE WellFoundedInduction
SequenceFacts == INSTANCE SequenceTheorems

--------------------------------------------------------------------------------
(* Files: the stream of the handle is one that no later open replaced, and *)
(* what waits in a buffer waits in that of an open stream.                 *)

FileType == [made : BOOLEAN, can : SUBSET {"read", "write"}, stream : Streams \cup {NoStream},
             statted : BOOLEAN, size : Nat]
DiskType == [exists : BOOLEAN, size : Nat]

FileTypeOK ==
    /\ file \in FileType
    /\ disk \in DiskType
    /\ fresh \in BOOLEAN
    /\ reopened \subseteq Streams

StreamsOK ==
    /\ IsOpen <=> file.stream # NoStream
    /\ streams = reopened \cup ({file.stream} \ {NoStream})
    /\ buffering \ reopened \subseteq {file.stream} \ {NoStream}
    /\ file.stream \notin reopened
    /\ ~file.made => ~IsOpen

LookedAt == file.statted /\ fresh => file.size = disk.size

FileInv == FileTypeOK /\ StreamsOK /\ LookedAt

LEMMA FileInvInit == FileInit => FileInv
<1> SUFFICES ASSUME FileInit PROVE FileInv
  OBVIOUS
<1>1. NoFile \in FileType /\ Absent \in DiskType
  BY DEF NoFile, FileType, Absent, DiskType
<1>2. FileTypeOK
  BY <1>1 DEF FileInit, FileTypeOK
<1>3. StreamsOK /\ LookedAt
  BY DEF FileInit, StreamsOK, LookedAt, IsOpen, NoFile
<1>4. QED
  BY <1>2, <1>3 DEF FileInv

(* What changes the file on its way out of a buffer ends what fresh says.  *)
DiskStep == disk' \in DiskType /\ fresh' \in BOOLEAN /\ (fresh' => fresh /\ disk' = disk)

LEMMA ReachesSteps ==
  ASSUME FileTypeOK, NEW s, Reaches(s)
  PROVE  DiskStep
<1>1. CASE s \in named
  <2>1. PICK n \in disk.size..MaxBytes : disk' = [disk EXCEPT !.size = n]
    BY <1>1 DEF Reaches
  <2>2. n \in Nat
    BY SizesAreCounted DEF FileTypeOK, DiskType
  <2>3. disk' \in DiskType
    BY <2>1, <2>2 DEF FileTypeOK, DiskType
  <2>4. QED
    BY <1>1, <2>3 DEF Reaches, DiskStep
<1>2. CASE s \notin named
  BY <1>2 DEF Reaches, DiskStep, FileTypeOK
<1>3. QED
  BY <1>1, <1>2

LEMMA FlushesSteps ==
  ASSUME FileTypeOK, NEW s, Flushes(s)
  PROVE  DiskStep /\ buffering' = buffering \ {s}
<1>1. CASE s \in buffering
  BY <1>1, ReachesSteps DEF Flushes
<1>2. CASE s \notin buffering
  BY <1>2 DEF Flushes, DiskStep, FileTypeOK
<1>3. QED
  BY <1>1, <1>2

(* A step that leaves the streams and the handle to themselves.            *)
LEMMA DiskStepKeeps ==
  ASSUME FileInv, DiskStep, UNCHANGED <<file, streams, reopened>>,
         buffering' \subseteq buffering \cup ({file.stream} \ {NoStream})
  PROVE  FileInv'
BY DEF FileInv, FileTypeOK, StreamsOK, LookedAt, IsOpen, DiskStep

(* The handle is closed, by avFileClose or avFileHandleDestroy.            *)
LEMMA ClosingKeeps ==
  ASSUME FileInv, Flushes(file.stream), Drops(file.stream), UNCHANGED reopened,
         file' \in FileType, file'.can = {}, file'.stream = NoStream,
         file'.statted => file.statted /\ file'.size = file.size
  PROVE  FileInv'
<1>1. DiskStep /\ buffering' = buffering \ {file.stream}
  BY FlushesSteps DEF FileInv
<1>2. FileTypeOK'
  BY <1>1 DEF FileInv, FileTypeOK, DiskStep
<1>3. StreamsOK'
  BY <1>1, NoStreamIsNull DEF FileInv, FileTypeOK, StreamsOK, IsOpen, Drops
<1>4. LookedAt'
  BY <1>1 DEF FileInv, LookedAt, DiskStep
<1>5. QED
  BY <1>2, <1>3, <1>4 DEF FileInv

LEMMA FileInvStep ==
  ASSUME FileInv, FileNext
  PROVE  FileInv'
<1>0. NoFile \in FileType /\ [NoFile EXCEPT !.made = TRUE] \in FileType
  BY DEF NoFile, FileType
<1>1. CASE HandleCreate
  <2>1. file' = [NoFile EXCEPT !.made = TRUE] /\ fresh' = FALSE
        /\ UNCHANGED <<disk, streams, buffering, reopened>>
    BY <1>1 DEF HandleCreate
  <2>2. file' \in FileType /\ file'.can = {} /\ file'.stream = NoStream /\ file'.made
    BY <1>0, <2>1 DEF NoFile
  <2>3. file.stream = NoStream
    BY <1>1 DEF HandleCreate, FileInv, StreamsOK
  <2>4. FileTypeOK' /\ LookedAt'
    BY <2>1, <2>2 DEF FileInv, FileTypeOK, LookedAt
  <2>5. StreamsOK'
    BY <2>1, <2>2, <2>3, NoStreamIsNull DEF FileInv, FileTypeOK, StreamsOK, IsOpen
  <2>6. QED
    BY <2>4, <2>5 DEF FileInv
<1>2. CASE Write
  <2>1. UNCHANGED <<file, streams, reopened>>
        /\ buffering' \subseteq buffering \cup {file.stream} /\ file.stream # NoStream
    BY <1>2 DEF Write, FileInv, StreamsOK, IsOpen
  <2>2. DiskStep
    <3>1. CASE UNCHANGED <<disk, fresh>>
      BY <3>1 DEF DiskStep, FileInv, FileTypeOK
    <3>2. CASE Reaches(file.stream)
      BY <3>2, ReachesSteps DEF FileInv
    <3>3. QED
      BY <1>2, <3>1, <3>2 DEF Write
  <2>3. QED
    BY <2>1, <2>2, DiskStepKeeps
<1>3. CASE Seek
  <2>1. DiskStep /\ buffering' = buffering \ {file.stream}
    BY <1>3, FlushesSteps DEF Seek, FileInv
  <2>2. QED
    BY <1>3, <2>1, DiskStepKeeps DEF Seek
<1>4. CASE GetStat
  <2>1. PICK found \in {disk.exists, FALSE} :
            /\ file' = [file EXCEPT !.statted = TRUE, !.size = IF found THEN disk.size ELSE 0]
            /\ fresh' = found
    BY <1>4 DEF GetStat
  <2>2. found \in BOOLEAN /\ disk.size \in Nat
    BY DEF FileInv, FileTypeOK, DiskType
  <2>3. /\ file' \in FileType /\ file'.made = file.made /\ file'.can = file.can
        /\ file'.stream = file.stream
        /\ found => file'.size = disk.size
    BY <2>1, <2>2 DEF FileInv, FileTypeOK, FileType
  <2>4. UNCHANGED <<disk, streams, buffering, reopened>>
    BY <1>4 DEF GetStat
  <2>5. FileTypeOK' /\ LookedAt'
    BY <2>1, <2>2, <2>3, <2>4 DEF FileInv, FileTypeOK, LookedAt
  <2>6. StreamsOK'
    BY <2>3, <2>4 DEF FileInv, StreamsOK, IsOpen
  <2>7. QED
    BY <2>5, <2>6 DEF FileInv
<1>5. CASE Close
  <2>1. file' = [file EXCEPT !.can = {}, !.stream = NoStream]
    BY <1>5 DEF Close
  <2>2. /\ file' \in FileType /\ file'.can = {} /\ file'.stream = NoStream
        /\ file'.statted = file.statted /\ file'.size = file.size
    BY <2>1 DEF FileInv, FileTypeOK, FileType
  <2>3. QED
    BY <1>5, <2>2, ClosingKeeps DEF Close
<1>6. CASE HandleDestroy
  <2>1. /\ file' \in FileType /\ file'.can = {} /\ file'.stream = NoStream
        /\ ~file'.statted /\ UNCHANGED reopened
    BY <1>0, <1>6 DEF HandleDestroy, NoFile
  <2>2. CASE IsOpen
    BY <1>6, <2>1, <2>2, ClosingKeeps DEF HandleDestroy
  <2>3. CASE ~IsOpen
    <3>1. UNCHANGED <<disk, streams, buffering, fresh>> /\ file.stream = NoStream
      BY <1>6, <2>3 DEF HandleDestroy, FileInv, StreamsOK
    <3>2. FileTypeOK' /\ LookedAt'
      BY <2>1, <3>1 DEF FileInv, FileTypeOK, LookedAt
    <3>3. StreamsOK'
      BY <2>1, <3>1 DEF FileInv, StreamsOK, IsOpen
    <3>4. QED
      BY <3>2, <3>3 DEF FileInv
  <2>4. QED
    BY <2>2, <2>3
<1>7. CASE Delete \/ Changes
  <2>1. Absent \in DiskType
    BY DEF Absent, DiskType
  <2>2. \A n \in 0..MaxBytes : [exists |-> TRUE, size |-> n] \in DiskType
    BY SizesAreCounted DEF DiskType
  <2>3. disk' \in DiskType
    BY <1>7, <2>1, <2>2 DEF Delete, Changes
  <2>4. DiskStep
    BY <1>7, <2>3 DEF Delete, Changes, DiskStep
  <2>5. QED
    BY <1>7, <2>4, DiskStepKeeps DEF Delete, Changes
<1>8. ASSUME NEW mode \in {"read", "write", "append"}, Open(mode) PROVE FileInv'
  <2>1. PICK s \in Streams \ streams :
            /\ file' = [file EXCEPT !.can = Can(mode), !.stream = s]
            /\ streams' = streams \cup {s}
    BY <1>8 DEF Open
  <2>2. Can(mode) \in SUBSET {"read", "write"} /\ Can(mode) # {}
    BY DEF Can
  <2>3. /\ file' \in FileType /\ file'.made = file.made /\ file'.can = Can(mode)
        /\ file'.stream = s /\ file'.statted = file.statted /\ file'.size = file.size
    BY <2>1, <2>2 DEF FileInv, FileTypeOK, FileType
  <2>4. /\ reopened' = reopened \cup ({file.stream} \ {NoStream})
        /\ fresh' \in BOOLEAN /\ (fresh' => fresh /\ disk' = disk)
        /\ UNCHANGED buffering /\ file.made
    BY <1>8 DEF Open
  <2>5. disk' \in DiskType
    <3>1. disk.size \in Nat
      BY DEF FileInv, FileTypeOK, DiskType
    <3>2. \A n \in Nat : [exists |-> TRUE, size |-> n] \in DiskType
      BY DEF DiskType
    <3>3. disk' = disk \/ disk' = [exists |-> TRUE, size |-> IF mode = "write" THEN 0 ELSE disk.size]
      BY <1>8 DEF Open
    <3>4. QED
      BY <3>1, <3>2, <3>3 DEF FileInv, FileTypeOK
  <2>6. FileTypeOK'
    BY <2>3, <2>4, <2>5 DEF FileInv, FileTypeOK, FileType
  <2>7. StreamsOK'
    BY <2>1, <2>2, <2>3, <2>4, NoStreamIsNull DEF FileInv, FileTypeOK, StreamsOK, IsOpen
  <2>8. LookedAt'
    BY <2>3, <2>4 DEF FileInv, LookedAt
  <2>9. QED
    BY <2>6, <2>7, <2>8 DEF FileInv
<1>9. ASSUME NEW mode \in {"read", "write", "append"}, OpenFails(mode) PROVE FileInv'
  <2>1. /\ file' = [file EXCEPT !.can = {}, !.stream = NoStream]
        /\ reopened' = reopened \cup ({file.stream} \ {NoStream})
        /\ UNCHANGED <<disk, streams, buffering, fresh>>
    BY <1>9 DEF OpenFails
  <2>2. /\ file' \in FileType /\ file'.made = file.made /\ file'.can = {}
        /\ file'.stream = NoStream /\ file'.statted = file.statted /\ file'.size = file.size
    BY <2>1 DEF FileInv, FileTypeOK, FileType
  <2>3. FileTypeOK' /\ LookedAt'
    BY <2>1, <2>2 DEF FileInv, FileTypeOK, FileType, LookedAt
  <2>4. StreamsOK'
    BY <2>1, <2>2, NoStreamIsNull DEF FileInv, FileTypeOK, StreamsOK, IsOpen
  <2>5. QED
    BY <2>3, <2>4 DEF FileInv
<1>10. QED
  BY <1>1, <1>2, <1>3, <1>4, <1>5, <1>6, <1>7, <1>8, <1>9 DEF FileNext

LEMMA FileInvKept == FileInv /\ UNCHANGED fileVars => FileInv'
BY DEF FileInv, FileTypeOK, StreamsOK, LookedAt, IsOpen, fileVars

(* Whatever the order of calls and failures, and whatever other programs   *)
(* do to the file, the handle reads and writes only through the stream it  *)
(* will close, every other open stream was overwritten by avFileOpen on a  *)
(* handle that was open, and so what waits in a buffer waits in that of    *)
(* the handle or of such a stream.  What avFileGetSize answers is right    *)
(* for a file below the range until something reaches or changes the file. *)
THEOREM FilesStaySound == Spec => []FilesSound
<1>1. Init => FileInv
  BY FileInvInit DEF Init
<1>2. FileInv /\ [Next]_platformVars => FileInv'
  BY FileInvStep, FileInvKept DEF Next, platformVars
<1>3. FileInv => FilesSound
  <2>1. ASSUME FileInv, file.statted, fresh, disk.size < SizeRange PROVE GetSize = disk.size
    <3>1. file.size = disk.size /\ disk.size \in Nat
      BY <2>1 DEF FileInv, FileTypeOK, DiskType, LookedAt
    <3>2. disk.size % SizeRange = disk.size
      BY <2>1, <3>1, SizesAreCounted
    <3>3. QED
      BY <3>1, <3>2 DEF GetSize
  <2>2. QED
    BY <2>1 DEF FileInv, StreamsOK, FilesSound
<1>4. QED
  BY <1>1, <1>2, <1>3, PTL DEF Spec

--------------------------------------------------------------------------------
(* Descriptors: the lowest that is free.                                   *)

(* Natural numbers have a least member in every set of them.               *)
LEMMA LeastNatural ==
  ASSUME NEW S, S \subseteq Nat, S # {}
  PROVE  \E m \in S : \A n \in S : m <= n
<1> DEFINE Less == {p \in Nat \X Nat : p[1] < p[2]}
<1>1. WellFounded!IsWellFoundedOn(WellFounded!OpToRel(<, Nat), Nat)
  BY WellFounded!NatLessThanWellFounded, Zenon
<1>2. WellFounded!OpToRel(<, Nat) = Less
  BY Zenon DEF WellFounded!OpToRel
<1>3. PICK m \in S : \A n \in S : <<n, m>> \notin Less
  <2> HIDE DEF Less
  <2> QED
    BY <1>1, <1>2, WellFounded!WFMin
<1>4. \A n \in S : ~(n < m)
  BY <1>3
<1> HIDE DEF Less
<1>5. QED
  BY <1>4

LEMMA MinIsMember ==
  ASSUME NEW S, S \subseteq Nat, S # {}
  PROVE  Min(S) \in S
BY LeastNatural DEF Min

LEMMA FdsAreFinite == IsFiniteSet(Fds) /\ Fds \subseteq Nat
<1>1. Fds \subseteq Nat
  BY HasStandardStreams DEF Fds
<1>2. IsFiniteSet(0..MaxFd)
  BY FS_Interval, HasStandardStreams
<1>3. QED
  BY <1>1, <1>2 DEF Fds

(* pipe() finds two descriptors that are free and not the same.            *)
LEMMA TwoAreFree ==
  ASSUME NEW S, S \subseteq Fds, Cardinality(S) > 1
  PROVE  /\ Min(S) \in S
         /\ Min(S \ {Min(S)}) \in S \ {Min(S)}
<1>1. IsFiniteSet(S) /\ S \subseteq Nat
  BY FdsAreFinite, FS_Subset
<1>2. S # {}
  BY FS_EmptySet
<1>3. Min(S) \in S
  BY <1>1, <1>2, MinIsMember
<1>4. S \ {Min(S)} # {}
  <2> SUFFICES ASSUME S = {Min(S)} PROVE FALSE
    BY <1>3
  <2>1. Cardinality({Min(S)}) = 1
    BY FS_Singleton
  <2>2. QED
    BY <2>1
<1>5. QED
  BY <1>1, <1>3, <1>4, MinIsMember

--------------------------------------------------------------------------------
(* Processes and pipes.                                                    *)

What == {"closed", "tty", "file", "read", "write"}
Places == {"none", "forked", "running", "exited", "reaped"}

ChildType == [at : Places, reads : BOOLEAN, writes : BOOLEAN, left : Int, heldWriteEnd : BOOLEAN]
HandleType == [pid : Children \cup {Nobody, -1},
               status : Children \cup {"none", "discarded", "error"}]
PipeType == [read : Int, write : Int, used : {"no", "yes", "destroyed"}, made : BOOLEAN]

ProcessTypeOK ==
    /\ fds \in [Processes -> [Fds -> What]]
    /\ pipe \in PipeType
    /\ child \in [Children -> ChildType]
    /\ handle \in [Children -> HandleType]
    /\ waitingFor \in Children \cup {Nobody}
    /\ waitingFor # Nobody => handle[waitingFor].pid # Nobody

LEMMA ProcessesAre ==
    /\ 0 \in Fds /\ 1 \in Fds
    /\ Parent \in Processes
    /\ \A c \in Children : c \in Processes /\ c # Parent /\ c # Nobody /\ c # -1
BY HasStandardStreams, ProcessesAreApart DEF Fds, Processes

LEMMA ProcessTypeInit == ProcessInit => ProcessTypeOK
<1> SUFFICES ASSUME ProcessInit PROVE ProcessTypeOK
  OBVIOUS
<1>1. fds \in [Processes -> [Fds -> What]]
  BY DEF ProcessInit, What
<1>2. pipe \in PipeType
  BY DEF ProcessInit, PipeType
<1>3. NotStarted \in ChildType
  BY ONLY SMT DEF NotStarted, Places, ChildType
<1>4. child \in [Children -> ChildType]
  BY <1>3 DEF ProcessInit
<1>5. QED
  BY <1>1, <1>2, <1>4 DEF ProcessInit, ProcessTypeOK, HandleType

(* The steps of the parent that change the descriptors.                    *)
LEMMA ParentTypes ==
  ASSUME ProcessTypeOK,
         \/ PipeCreate \/ PipeCreateFails \/ OpenFile
         \/ ConsumeWriteChannel \/ ConsumeReadChannel \/ PipeDestroy
  PROVE  ProcessTypeOK'
<1> USE ProcessesAre DEF ProcessTypeOK
<1>1. FreeFds(Parent) \subseteq Fds
  BY DEF FreeFds
<1>2. CASE PipeCreate
  <2> DEFINE r == Min(FreeFds(Parent))
             w == Min(FreeFds(Parent) \ {r})
  <2>1. r \in Fds /\ w \in Fds
    BY <1>1, <1>2, TwoAreFree DEF PipeCreate
  <2>2. fds' = [fds EXCEPT ![Parent] = Opened(Opened(fds[Parent], r, "read"), w, "write")]
    BY <1>2 DEF PipeCreate
  <2>3. pipe' = [read |-> r, write |-> w, used |-> "yes", made |-> TRUE]
    BY <1>2 DEF PipeCreate
  <2> HIDE DEF r, w
  <2>4. fds' \in [Processes -> [Fds -> What]]
    BY <2>1, <2>2 DEF Opened, What
  <2>5. r \in Int /\ w \in Int
    BY <2>1, FdsAreFinite
  <2>6. pipe' \in PipeType
    BY ONLY <2>3, <2>5, SMT DEF PipeType
  <2>7. child' = child /\ handle' = handle /\ waitingFor' = waitingFor
    BY <1>2 DEF PipeCreate
  <2>8. QED
    BY <2>4, <2>6, <2>7
<1>9. CASE PipeCreateFails
  <2>1. PICK r \in Int, w \in Int :
            pipe' = [read |-> r, write |-> w, used |-> "yes", made |-> FALSE]
    BY <1>9, LeftoversAreNumbers DEF PipeCreateFails
  <2>2. pipe' \in PipeType
    BY ONLY <2>1, SMT DEF PipeType
  <2>3. QED
    BY <1>9, <2>2 DEF PipeCreateFails
<1>3. CASE OpenFile
  <2> DEFINE n == Min(FreeFds(Parent))
  <2>1. n \in Fds
    BY <1>1, <1>3, FdsAreFinite, MinIsMember DEF OpenFile
  <2>2. fds' = [fds EXCEPT ![Parent] = Opened(fds[Parent], n, "file")]
    BY <1>3 DEF OpenFile
  <2> HIDE DEF n
  <2>3. fds' \in [Processes -> [Fds -> What]]
    BY <2>1, <2>2 DEF Opened, What
  <2>4. QED
    BY <1>3, <2>3 DEF OpenFile
<1>4. ASSUME NEW ns, Closes(ns) PROVE fds' \in [Processes -> [Fds -> What]]
  <2> DEFINE kept == Closed(fds[Parent], ns)
  <2>1. kept \in [Fds -> What]
    BY DEF What, Closed
  <2>2. fds' = [fds EXCEPT ![Parent] = kept]
    BY <1>4 DEF Closes
  <2> HIDE DEF kept
  <2>3. QED
    BY <2>1, <2>2
<1>5. CASE ConsumeWriteChannel
  BY <1>4, <1>5 DEF ConsumeWriteChannel, Closes
<1>6. CASE ConsumeReadChannel
  BY <1>4, <1>6 DEF ConsumeReadChannel, Closes
<1>7. CASE PipeDestroy
  <2>1. pipe' \in PipeType
    BY <1>7 DEF PipeDestroy, PipeType
  <2>2. QED
    BY <1>4, <1>7, <2>1 DEF PipeDestroy, Closes
<1>8. QED
  BY <1>2, <1>3, <1>5, <1>6, <1>7, <1>9

LEMMA EndsTypes ==
  ASSUME ProcessTypeOK, NEW c \in Children, Ends(c)
  PROVE  ProcessTypeOK'
<1> DEFINE over == [NotStarted EXCEPT !.at = "exited"]
<1>1. over \in ChildType
  <2>1. NotStarted \in ChildType
    BY ONLY SMT DEF NotStarted, Places, ChildType
  <2>2. QED
    BY ONLY <2>1, SMT DEF Places, ChildType
<1>2. child' = [child EXCEPT ![c] = over]
  BY DEF Ends
<1> HIDE DEF over
<1>3. child' \in [Children -> ChildType]
  BY <1>1, <1>2 DEF ProcessTypeOK
<1>4. fds' \in [Processes -> [Fds -> What]]
  BY DEF Ends, ProcessTypeOK, What
<1>5. UNCHANGED <<pipe, handle, waitingFor>>
  BY DEF Ends
<1>6. QED
  BY <1>3, <1>4, <1>5 DEF ProcessTypeOK

(* close, dup2, close: what a redirection does to a table.                 *)
LEMMA RedirectedTable ==
  ASSUME NEW t \in [Fds -> What], NEW std \in Fds, NEW n
  PROVE  /\ Redirected(t, std, n) \in [Fds -> What]
         /\ \A m \in Fds : Redirected(t, std, n)[m] =
                IF m = n THEN "closed"
                ELSE IF m = std THEN NumberIs(Closed(t, {std}), n) ELSE t[m]
<1> DEFINE freed == Closed(t, {std})
           given == Opened(freed, std, NumberIs(freed, n))
<1>1. freed \in [Fds -> What] /\ \A m \in Fds : m # std => freed[m] = t[m]
  BY DEF Closed, What
<1>2. NumberIs(freed, n) \in What
  <2> HIDE DEF freed
  <2> QED
    BY <1>1 DEF NumberIs, What
<1>3. given \in [Fds -> What] /\ given[std] = NumberIs(freed, n)
      /\ \A m \in Fds : m # std => given[m] = t[m]
  <2> HIDE DEF freed
  <2> QED
    BY <1>1, <1>2 DEF Opened
<1>4. Redirected(t, std, n) = Closed(given, {n})
  BY DEF Redirected
<1> HIDE DEF given
<1>5. Closed(given, {n}) \in [Fds -> What]
  BY <1>3 DEF Closed, What
<1>6. \A m \in Fds : Closed(given, {n})[m] = IF m = n THEN "closed" ELSE given[m]
  BY DEF Closed
<1>7. QED
  BY <1>3, <1>4, <1>5, <1>6

LEMMA ChildTypes ==
  ASSUME ProcessTypeOK, NEW c \in Children, ChildStep(c)
  PROVE  ProcessTypeOK'
<1>1. CASE Redirect(c)
  <2>2. fds[c] \in [Fds -> What] /\ 0 \in Fds /\ 1 \in Fds
    BY ProcessesAre DEF ProcessTypeOK
  <2>4. fds' \in [Processes -> [Fds -> What]]
    <3> DEFINE Output(t) == IF child[c].writes THEN Redirected(t, 1, pipe.write) ELSE t
               Input(t) == IF child[c].reads THEN Redirected(t, 0, pipe.read) ELSE t
    <3>1. Output(fds[c]) \in [Fds -> What]
      BY <2>2, RedirectedTable
    <3>2. \A t : t \in [Fds -> What] => Input(t) \in [Fds -> What]
      BY <2>2, RedirectedTable
    <3>3. fds' = [fds EXCEPT ![c] = Input(Output(fds[c]))]
      BY <1>1 DEF Redirect
    <3> HIDE DEF Output, Input
    <3>4. QED
      BY <3>1, <3>2, <3>3 DEF ProcessTypeOK
  <2>5. child' \in [Children -> ChildType]
    BY <1>1 DEF Redirect, ProcessTypeOK, ChildType, Places
  <2>6. QED
    BY <1>1, <2>4, <2>5 DEF Redirect, ProcessTypeOK
<1>2. CASE ExecFails(c) \/ ChildExits(c)
  BY <1>2, EndsTypes DEF ExecFails, ChildExits
<1>3. CASE ChildWrites(c)
  BY <1>3 DEF ChildWrites, ProcessTypeOK, ChildType
<1>4. CASE ChildReads(c)
  BY <1>4 DEF ChildReads, ProcessTypeOK
<1>5. QED
  BY <1>1, <1>2, <1>3, <1>4 DEF ChildStep

LEMMA CallTypes ==
  ASSUME ProcessTypeOK, NEW c \in Children,
         \/ \E input, output \in BOOLEAN : Start(c, input, output)
         \/ StartFails(c) \/ WaitExit(c) \/ Discard(c)
  PROVE  ProcessTypeOK'
<1>1. ASSUME NEW input \in BOOLEAN, NEW output \in BOOLEAN, Start(c, input, output)
      PROVE  ProcessTypeOK'
  <2>1. fds' \in [Processes -> [Fds -> What]]
    BY <1>1, ProcessesAre DEF Start, ProcessTypeOK
  <2>2. PICK n \in IF output THEN 1..MaxOutput ELSE {0} :
            child' = [child EXCEPT ![c] =
                          [at |-> "forked", reads |-> input, writes |-> output, left |-> n,
                           heldWriteEnd |-> \E d \in Fds : fds[Parent][d] = "write"]]
    BY <1>1 DEF Start
  <2> DEFINE forked == [at |-> "forked", reads |-> input, writes |-> output, left |-> n,
                        heldWriteEnd |-> \E d \in Fds : fds[Parent][d] = "write"]
  <2>3. forked \in ChildType
    <3>1. n \in Int
      OBVIOUS
    <3>2. (\E d \in Fds : fds[Parent][d] = "write") \in BOOLEAN
      OBVIOUS
    <3>3. QED
      BY <3>1, <3>2 DEF ChildType, Places
  <2>4. child' \in [Children -> ChildType]
    <3> HIDE DEF forked
    <3> QED
      BY <2>2, <2>3 DEF ProcessTypeOK, forked
  <2>5. handle' \in [Children -> HandleType]
    BY <1>1 DEF Start, ProcessTypeOK, HandleType
  <2>6. pipe' = pipe /\ waitingFor' = Nobody
    BY <1>1 DEF Start, Calls
  <2>7. QED
    BY <2>1, <2>4, <2>5, <2>6 DEF ProcessTypeOK
<1>2. CASE StartFails(c)
  BY <1>2 DEF StartFails, ProcessTypeOK, HandleType, Calls
<1>3. CASE WaitExit(c)
  BY <1>3 DEF WaitExit, ProcessTypeOK, HandleType
<1>4. CASE Discard(c)
  BY <1>4 DEF Discard, ProcessTypeOK, HandleType, Calls
<1>5. QED
  BY <1>1, <1>2, <1>3, <1>4

LEMMA PollTypes ==
  ASSUME ProcessTypeOK, PollReaps \/ PollFails
  PROVE  ProcessTypeOK'
<1>1. CASE PollReaps
  <2>1. waitingFor \in Children
    BY <1>1 DEF PollReaps, ProcessTypeOK
  <2>2. PICK c \in Awaited :
            /\ child' = [child EXCEPT ![c].at = "reaped"]
            /\ handle' = [handle EXCEPT ![waitingFor].status = c]
            /\ child[c].at = "exited"
    BY <1>1 DEF PollReaps
  <2>3. c \in Children
    BY <1>1, <2>1 DEF PollReaps, ProcessTypeOK, HandleType, Awaited
  <2>4. child' \in [Children -> ChildType]
    BY <2>2, <2>3 DEF ProcessTypeOK, ChildType, Places
  <2>5. handle' \in [Children -> HandleType]
    BY <2>1, <2>2, <2>3 DEF ProcessTypeOK, HandleType
  <2>6. UNCHANGED <<fds, pipe>> /\ waitingFor' = Nobody
    BY <1>1 DEF PollReaps
  <2>7. QED
    BY <2>4, <2>5, <2>6 DEF ProcessTypeOK
<1>2. CASE PollFails
  BY <1>2 DEF PollFails, ProcessTypeOK, HandleType
<1>3. QED
  BY <1>1, <1>2

LEMMA ProcessTypeStep ==
  ASSUME ProcessTypeOK, ProcessNext
  PROVE  ProcessTypeOK'
<1>1. ProcessTypeOK /\ UNCHANGED processVars => ProcessTypeOK'
  BY DEF ProcessTypeOK, processVars
<1>2. QED
  BY <1>1, ParentTypes, ChildTypes, CallTypes, PollTypes DEF ProcessNext, PollAgain

(* A handle is of the child it started, or of "any child" after a fork     *)
(* that failed, and what it reports is the end of a child that was reaped  *)
(* then; while no fork has failed, a child is reaped only by the wait of   *)
(* its own handle, and that wait ends.                                     *)
NoForkFailed == \A c \in Children : handle[c].pid # -1
Reports == \A c \in Children : handle[c].status \in Children => child[handle[c].status].at = "reaped"
WaitInv ==
    /\ Reports
    /\ ReportedOnce
    /\ \A c \in Children : handle[c].pid \in {Nobody, -1, c}
    /\ waitingFor # Nobody => handle[waitingFor].status = "none"
    /\ NoForkFailed =>
          \A c \in Children :
              /\ handle[c].status \in {"none", "discarded", c}
              /\ handle[c].pid = c /\ handle[c].status = "none"
                    => child[c].at \in {"forked", "running", "exited"}

LEMMA WaitInvInit == ProcessInit => WaitInv
BY ProcessesAre, ProcessesAreApart, ChildrenAreNoStatus
   DEF ProcessInit, WaitInv, Reports, ReportedOnce, NoForkFailed

(* Steps that report nothing new, and let no child that was reaped be      *)
(* anything else.                                                          *)
LEMMA ReportsStay ==
  ASSUME Reports, ReportedOnce,
         \A c \in Children : child[c].at = "reaped" => child'[c].at = "reaped",
         \A c \in Children : handle'[c].status = handle[c].status \/ handle'[c].status \notin Children
  PROVE  Reports' /\ ReportedOnce'
BY DEF Reports, ReportedOnce

LEMMA WaitInvStep ==
  ASSUME ProcessTypeOK, WaitInv, ProcessNext
  PROVE  WaitInv'
<1> USE ProcessesAre, ProcessesAreApart DEF ProcessTypeOK, HandleType, ChildType, Calls
<1>1. ASSUME handle' = handle, waitingFor' = waitingFor, child' = child PROVE WaitInv'
  BY <1>1 DEF WaitInv, NoForkFailed, Reports, ReportedOnce
<1>2. CASE PipeCreate \/ PipeCreateFails \/ OpenFile
           \/ ConsumeWriteChannel \/ ConsumeReadChannel \/ PipeDestroy
           \/ PollAgain \/ UNCHANGED processVars
  BY <1>1, <1>2 DEF PipeCreate, PipeCreateFails, OpenFile, ConsumeWriteChannel,
                    ConsumeReadChannel, PipeDestroy, PollAgain, Closes, processVars
<1>3. CASE PollReaps
  <2>1. waitingFor \in Children /\ waitingFor' = Nobody
    BY <1>3 DEF PollReaps
  <2>2. PICK d \in Awaited : /\ child' = [child EXCEPT ![d].at = "reaped"]
                             /\ handle' = [handle EXCEPT ![waitingFor].status = d]
                             /\ child[d].at = "exited"
    BY <1>3 DEF PollReaps
  <2>8. d \in Children
    BY <1>3, <2>1 DEF Awaited, PollReaps
  <2>9. Reports' /\ ReportedOnce'
    <3>1. /\ child'[d].at = "reaped" /\ handle'[waitingFor].status = d
          /\ \A c \in Children : child[c].at = "reaped" => child'[c].at = "reaped"
          /\ \A c \in Children \ {waitingFor} : handle'[c].status = handle[c].status
      BY <2>1, <2>2, <2>8
    <3>2. \A c \in Children : handle[c].status # d
      BY <2>2, <2>8 DEF WaitInv, Reports
    <3>3. Reports'
      BY <2>1, <3>1 DEF WaitInv, Reports
    <3>4. ReportedOnce'
      BY <2>1, <3>1, <3>2 DEF WaitInv, ReportedOnce
    <3>5. QED
      BY <3>3, <3>4
  <2>3. \A c \in Children : handle'[c].pid = handle[c].pid
    BY <2>1, <2>2
  <2>4. NoForkFailed => d = waitingFor
    BY <2>1 DEF WaitInv, NoForkFailed, Awaited
  <2>5. NoForkFailed' => NoForkFailed
    BY <2>3 DEF NoForkFailed
  <2>6. ASSUME NoForkFailed, NEW c \in Children
        PROVE  /\ handle'[c].status \in {"none", "discarded", c}
               /\ handle'[c].pid = c /\ handle'[c].status = "none"
                     => child'[c].at \in {"forked", "running", "exited"}
    <3>1. CASE c = waitingFor
      BY <2>1, <2>2, <2>4, <2>6, <3>1, ChildrenAreNoStatus
    <3>2. CASE c # waitingFor
      BY <2>1, <2>2, <2>4, <2>6, <3>2 DEF WaitInv
    <3>3. QED
      BY <3>1, <3>2
  <2>7. QED
    BY <2>1, <2>3, <2>5, <2>6, <2>9 DEF WaitInv, NoForkFailed
<1>4. CASE PollFails
  <2>1. waitingFor \in Children /\ waitingFor' = Nobody
    BY <1>4 DEF PollFails
  <2>2. /\ handle' = [handle EXCEPT ![waitingFor].status = "error"]
        /\ child' = child
        /\ \A c \in Awaited : child[c].at \in {"none", "reaped"}
    BY <1>4 DEF PollFails
  <2>3. ~NoForkFailed
    <3> SUFFICES ASSUME NoForkFailed PROVE FALSE
      OBVIOUS
    <3>1. handle[waitingFor].pid = waitingFor
      BY <2>1 DEF WaitInv, NoForkFailed
    <3>2. QED
      BY <2>1, <2>2, <3>1 DEF WaitInv, Awaited
  <2>4. \A c \in Children : handle'[c].pid = handle[c].pid
    BY <2>1, <2>2
  <2>5. Reports' /\ ReportedOnce'
    BY <2>1, <2>2, ReportsStay, ChildrenAreNoStatus DEF WaitInv
  <2>6. QED
    BY <2>1, <2>3, <2>4, <2>5 DEF WaitInv, NoForkFailed
<1>5. ASSUME NEW c \in Children, NEW input \in BOOLEAN, NEW output \in BOOLEAN,
             Start(c, input, output)
      PROVE  WaitInv'
  <2>1. /\ handle' = [handle EXCEPT ![c].pid = c]
        /\ handle[c].pid = Nobody /\ handle[c].status = "none"
        /\ waitingFor' = Nobody
    BY <1>5 DEF Start
  <2>2. child'[c].at = "forked" /\ \A d \in Children \ {c} : child'[d] = child[d]
    BY <1>5 DEF Start
  <2>3. NoForkFailed' => NoForkFailed
    BY <2>1 DEF NoForkFailed
  <2>4. child[c].at = "none"
    BY <1>5 DEF Start
  <2>5. Reports' /\ ReportedOnce'
    BY <2>1, <2>2, <2>4, ReportsStay DEF WaitInv
  <2>6. QED
    BY <2>1, <2>2, <2>3, <2>5 DEF WaitInv, NoForkFailed
<1>6. ASSUME NEW c \in Children, StartFails(c) \/ WaitExit(c) \/ Discard(c) PROVE WaitInv'
  <2>1. child' = child
    BY <1>6 DEF StartFails, WaitExit, Discard
  <2>2. ASSUME NEW d \in Children PROVE handle'[d].status \in {handle[d].status, "discarded"}
    <3>1. CASE StartFails(c)
      BY <3>1 DEF StartFails
    <3>2. CASE WaitExit(c)
      BY <3>2 DEF WaitExit
    <3>3. CASE Discard(c)
      BY <3>3 DEF Discard
    <3>4. QED
      BY <1>6, <3>1, <3>2, <3>3
  <2>3. Reports' /\ ReportedOnce'
    BY <2>1, <2>2, ReportsStay, ChildrenAreNoStatus DEF WaitInv
  <2>4. CASE StartFails(c)
    BY <2>3, <2>4 DEF StartFails, WaitInv, NoForkFailed
  <2>5. CASE WaitExit(c)
    BY <2>3, <2>5 DEF WaitExit, WaitInv, NoForkFailed
  <2>6. CASE Discard(c)
    BY <2>3, <2>6 DEF Discard, WaitInv, NoForkFailed
  <2>7. QED
    BY <1>6, <2>4, <2>5, <2>6
<1>9. ASSUME NEW c \in Children, ChildStep(c) PROVE WaitInv'
  <2>1. handle' = handle /\ waitingFor' = waitingFor
    BY <1>9 DEF ChildStep, Redirect, ExecFails, ChildWrites, ChildReads, ChildExits, Ends
  <2>2. /\ \A d \in Children \ {c} : child'[d] = child[d]
        /\ child'[c].at = child[c].at \/ child'[c].at \in {"running", "exited"}
        /\ child[c].at # "reaped"
    BY <1>9 DEF ChildStep, Redirect, ExecFails, ChildWrites, ChildReads, ChildExits, Ends,
                NotStarted
  <2>3. Reports' /\ ReportedOnce'
    BY <2>1, <2>2, ReportsStay DEF WaitInv
  <2>4. QED
    BY <2>1, <2>2, <2>3 DEF WaitInv, NoForkFailed
<1>10. QED
  BY <1>2, <1>3, <1>4, <1>5, <1>6, <1>9 DEF ProcessNext

LEMMA WaitInvariant == Spec => [](ProcessTypeOK /\ WaitInv)
<1>1. Init => ProcessTypeOK /\ WaitInv
  BY ProcessTypeInit, WaitInvInit DEF Init
<1>2. ProcessTypeOK /\ WaitInv /\ UNCHANGED processVars => ProcessTypeOK' /\ WaitInv'
  BY DEF ProcessTypeOK, WaitInv, NoForkFailed, Reports, ReportedOnce, processVars
<1>3. ProcessTypeOK /\ WaitInv /\ [Next]_platformVars => ProcessTypeOK' /\ WaitInv'
  BY <1>2, ProcessTypeStep, WaitInvStep DEF Next, platformVars
<1>4. QED
  BY <1>1, <1>3, PTL DEF Spec

(* avProcessWaitExit reports the process it was asked about, for any       *)
(* number of children that start, end and are waited for in any order, as  *)
(* long as every fork succeeds, and never a status that another handle has *)
(* reported, also when one fails.                                          *)
THEOREM WaitsReportTheirChild == Spec => []StatusesSound
<1>1. WaitInv => StatusesSound
  BY DEF WaitInv, NoForkFailed, StatusIsOfOwnChild, StatusesSound
<1>2. QED
  BY <1>1, WaitInvariant, PTL

(* The ends the program owns are the only ones it has open, under their    *)
(* two numbers; unless those were never made, it keeps its standard        *)
(* streams.                                                                *)
StdKept(p) == fds[p][0] = "tty" /\ fds[p][1] = "tty"
PipeInv ==
    /\ consumed \subseteq PipeEnds
    /\ pipe.used = "no" => consumed = {}
    /\ pipe.made => /\ pipe.used # "no"
                    /\ pipe.read \in Fds /\ pipe.write \in Fds
                    /\ pipe.read > 1 /\ pipe.write > 1 /\ pipe.read # pipe.write
    /\ (pipe.used = "no" \/ pipe.made) => StdKept(Parent)
    /\ \A n \in Fds : fds[Parent][n] = "read" <=> ("read" \in Owned /\ n = pipe.read)
    /\ \A n \in Fds : fds[Parent][n] = "write" <=> ("write" \in Owned /\ n = pipe.write)

LEMMA PipeInvInit == ProcessInit => PipeInv
BY ProcessesAre DEF ProcessInit, PipeInv, Std, StdKept, Owned

LEMMA ClosesTable ==
  ASSUME ProcessTypeOK, NEW ns, Closes(ns)
  PROVE  \A k \in Fds : fds'[Parent][k] = IF k \in ns THEN "closed" ELSE fds[Parent][k]
<1>1. fds' = [fds EXCEPT ![Parent] = Closed(fds[Parent], ns)]
  BY DEF Closes
<1>2. fds'[Parent] = Closed(fds[Parent], ns)
  BY <1>1, ProcessesAre DEF ProcessTypeOK
<1>3. QED
  BY <1>2 DEF Closed

(* Some of the ends are closed, and given up.                              *)
LEMMA ClosesEnds ==
  ASSUME ProcessTypeOK, PipeInv, NEW ns, Closes(ns), pipe.used = "yes",
         \A k \in ns : k = pipe.read \/ k = pipe.write,
         pipe'.read = pipe.read, pipe'.write = pipe.write, pipe'.made = pipe.made,
         pipe'.used # "no", consumed' \subseteq PipeEnds,
         "read" \in Owned' <=> "read" \in Owned /\ pipe.read \notin ns,
         "write" \in Owned' <=> "write" \in Owned /\ pipe.write \notin ns
  PROVE  PipeInv'
<1>1. \A k \in Fds : fds'[Parent][k] = IF k \in ns THEN "closed" ELSE fds[Parent][k]
  BY ClosesTable
<1>2. pipe.made => StdKept(Parent)'
  <2> SUFFICES ASSUME pipe.made PROVE StdKept(Parent)'
    OBVIOUS
  <2>1. 0 \notin ns /\ 1 \notin ns /\ StdKept(Parent)
    BY DEF PipeInv
  <2>2. QED
    BY <1>1, <2>1, ProcessesAre DEF StdKept
<1>3. \A n \in Fds : fds'[Parent][n] = "read" <=> ("read" \in Owned' /\ n = pipe'.read)
  BY <1>1 DEF PipeInv
<1>4. \A n \in Fds : fds'[Parent][n] = "write" <=> ("write" \in Owned' /\ n = pipe'.write)
  BY <1>1 DEF PipeInv
<1>5. QED
  BY <1>2, <1>3, <1>4 DEF PipeInv

LEMMA PipeInvStep ==
  ASSUME ProcessTypeOK, PipeInv, ProcessNext
  PROVE  PipeInv'
<1> USE ProcessesAre, ProcessesAreApart DEF ProcessTypeOK
<1>1. ASSUME fds'[Parent] = fds[Parent], pipe' = pipe, consumed' = consumed PROVE PipeInv'
  BY <1>1 DEF PipeInv, StdKept, Owned
<1>2. FreeFds(Parent) \subseteq Fds /\ \A n \in FreeFds(Parent) : fds[Parent][n] = "closed"
  BY DEF FreeFds
<1>3. Fds \subseteq Nat
  BY FdsAreFinite
<1>4. CASE PipeCreate
  <2> DEFINE r == Min(FreeFds(Parent))
             w == Min(FreeFds(Parent) \ {r})
  <2>1. r \in FreeFds(Parent) /\ w \in FreeFds(Parent) \ {r}
    BY <1>2, <1>4, TwoAreFree DEF PipeCreate
  <2>2. fds' = [fds EXCEPT ![Parent] = Opened(Opened(fds[Parent], r, "read"), w, "write")]
    BY <1>4 DEF PipeCreate
  <2>3. pipe' = [read |-> r, write |-> w, used |-> "yes", made |-> TRUE]
    BY <1>4 DEF PipeCreate
  <2>9. pipe.used = "no" /\ consumed' = consumed
    BY <1>4 DEF PipeCreate
  <2> HIDE DEF r, w
  <2>10. StdKept(Parent) /\ consumed = {} /\ Owned = {}
    BY <2>9 DEF PipeInv, Owned
  <2>4. r \in Fds /\ w \in Fds /\ r # w /\ r > 1 /\ w > 1
    <3>1. r \in Fds /\ w \in Fds /\ r # w
      BY <1>2, <2>1
    <3>2. r \notin {0, 1} /\ w \notin {0, 1}
      BY <1>2, <2>1, <2>10 DEF StdKept
    <3>3. r \in Nat /\ w \in Nat
      BY ONLY <1>3, <3>1
    <3>4. QED
      BY ONLY <3>1, <3>2, <3>3
  <2>5. fds'[Parent] = Opened(Opened(fds[Parent], r, "read"), w, "write")
    BY <2>2
  <2>6. \A n \in Fds : fds'[Parent][n] =
            IF n = w THEN "write" ELSE IF n = r THEN "read" ELSE fds[Parent][n]
    BY <2>4, <2>5 DEF Opened
  <2>7. StdKept(Parent)'
    BY <2>4, <2>6, <2>10 DEF StdKept
  <2>8. Owned' = PipeEnds /\ \A n \in Fds : fds[Parent][n] \notin PipeEnds
    BY <2>3, <2>9, <2>10 DEF PipeInv, Owned, PipeEnds
  <2>11. pipe'.read = r /\ pipe'.write = w /\ pipe'.used # "no"
    BY <2>3
  <2>12. \A n \in Fds : fds'[Parent][n] = "read" <=> ("read" \in Owned' /\ n = pipe'.read)
    BY <2>4, <2>6, <2>8, <2>11 DEF PipeEnds
  <2>13. \A n \in Fds : fds'[Parent][n] = "write" <=> ("write" \in Owned' /\ n = pipe'.write)
    BY <2>4, <2>6, <2>8, <2>11 DEF PipeEnds
  <2>14. consumed' \subseteq PipeEnds /\ pipe'.read > 1 /\ pipe'.write > 1
         /\ pipe'.read # pipe'.write /\ pipe'.read \in Fds /\ pipe'.write \in Fds
    BY <2>4, <2>9, <2>10, <2>11
  <2>15. QED
    BY <2>7, <2>11, <2>12, <2>13, <2>14 DEF PipeInv
<1>15. CASE PipeCreateFails
  <2>1. /\ pipe.used = "no" /\ pipe'.used = "yes" /\ ~pipe'.made
        /\ fds' = fds /\ consumed' = consumed
    BY <1>15 DEF PipeCreateFails
  <2>2. Owned = {} /\ Owned' = {}
    BY <2>1 DEF Owned
  <2>3. QED
    BY <2>1, <2>2 DEF PipeInv
<1>5. CASE OpenFile
  <2> DEFINE n == Min(FreeFds(Parent))
  <2>1. n \in FreeFds(Parent)
    BY <1>2, <1>3, <1>5, MinIsMember DEF OpenFile
  <2>2. fds' = [fds EXCEPT ![Parent] = Opened(fds[Parent], n, "file")]
    BY <1>5 DEF OpenFile
  <2> HIDE DEF n
  <2>3. \A k \in Fds : fds'[Parent][k] = IF k = n THEN "file" ELSE fds[Parent][k]
    BY <1>2, <2>1, <2>2 DEF Opened
  <2>4. n \in Fds /\ fds[Parent][n] = "closed"
    BY <1>2, <2>1
  <2>5. pipe' = pipe /\ consumed' = consumed
    BY <1>5 DEF OpenFile
  <2>6. Owned' = Owned
    BY <2>5 DEF Owned
  <2>7. StdKept(Parent) => StdKept(Parent)'
    BY <2>3, <2>4 DEF StdKept
  <2>8. \A k \in Fds : (fds'[Parent][k] = "read" <=> fds[Parent][k] = "read")
                       /\ (fds'[Parent][k] = "write" <=> fds[Parent][k] = "write")
    BY <2>3, <2>4
  <2>9. QED
    BY <2>5, <2>6, <2>7, <2>8 DEF PipeInv
<1>6. CASE ConsumeWriteChannel
  <2>1. pipe.used = "yes" /\ Closes({pipe.write}) /\ pipe' = pipe
        /\ consumed' = consumed \cup {"write"}
    BY <1>6 DEF ConsumeWriteChannel, Usable
  <2>2. "write" \notin Owned' /\ ("read" \in Owned' <=> "read" \in Owned)
    BY <2>1 DEF Owned, PipeEnds
  <2>3. "read" \in Owned => pipe.read # pipe.write
    BY DEF PipeInv, Owned
  <2>4. QED
    BY <2>1, <2>2, <2>3, ClosesEnds DEF PipeInv, PipeEnds
<1>7. CASE ConsumeReadChannel
  <2>1. pipe.used = "yes" /\ Closes({pipe.read}) /\ pipe' = pipe
        /\ consumed' = consumed \cup {"read"}
    BY <1>7 DEF ConsumeReadChannel, Usable
  <2>2. "read" \notin Owned' /\ ("write" \in Owned' <=> "write" \in Owned)
    BY <2>1 DEF Owned, PipeEnds
  <2>3. "write" \in Owned => pipe.read # pipe.write
    BY DEF PipeInv, Owned
  <2>4. QED
    BY <2>1, <2>2, <2>3, ClosesEnds DEF PipeInv, PipeEnds
<1>10. CASE PipeDestroy
  <2>1. pipe' = [pipe EXCEPT !.used = "destroyed"] /\ pipe.used = "yes"
        /\ Closes({pipe.read, pipe.write}) /\ consumed' = consumed
    BY <1>10 DEF PipeDestroy
  <2>2. pipe'.read = pipe.read /\ pipe'.write = pipe.write /\ pipe'.made = pipe.made
        /\ pipe'.used = "destroyed"
    BY <2>1 DEF PipeType
  <2>3. Owned' = {}
    BY <2>2 DEF Owned
  <2>4. QED
    BY <2>1, <2>2, <2>3, ClosesEnds DEF PipeInv
<1>11. CASE PollReaps \/ PollFails \/ PollAgain \/ UNCHANGED processVars
  BY <1>1, <1>11 DEF PollReaps, PollFails, PollAgain, processVars
<1>12. ASSUME NEW c \in Children, ChildStep(c) PROVE PipeInv'
  <2>1. pipe' = pipe /\ consumed' = consumed
    BY <1>12 DEF ChildStep, Redirect, ExecFails, ChildWrites, ChildReads, ChildExits, Ends
  <2>2. fds'[Parent] = fds[Parent]
    BY <1>12 DEF ChildStep, Redirect, ExecFails, ChildWrites, ChildReads, ChildExits, Ends
  <2>3. QED
    BY <1>1, <2>1, <2>2
<1>13. ASSUME NEW c \in Children,
              \/ \E input, output \in BOOLEAN : Start(c, input, output)
              \/ StartFails(c) \/ WaitExit(c) \/ Discard(c)
       PROVE  PipeInv'
  BY <1>1, <1>13 DEF Start, StartFails, WaitExit, Discard
<1>14. QED
  BY <1>4, <1>5, <1>6, <1>7, <1>10, <1>11, <1>12, <1>13, <1>15 DEF ProcessNext

LEMMA PipeInvariant == Spec => [](ProcessTypeOK /\ PipeInv)
<1>1. Init => ProcessTypeOK /\ PipeInv
  BY ProcessTypeInit, PipeInvInit DEF Init
<1>2. ProcessTypeOK /\ PipeInv /\ UNCHANGED processVars => ProcessTypeOK' /\ PipeInv'
  BY DEF ProcessTypeOK, PipeInv, StdKept, Owned, processVars
<1>3. ProcessTypeOK /\ PipeInv /\ [Next]_platformVars => ProcessTypeOK' /\ PipeInv'
  BY <1>2, ProcessTypeStep, PipeInvStep DEF Next, platformVars
<1>4. QED
  BY <1>1, <1>3, PTL DEF Spec

(* After avPipeDestroy the program has no end of the pipe open.            *)
THEOREM NoEndStaysOpen == Spec => []NoEndLeaks
<1>1. PipeInv => NoEndLeaks
  BY DEF PipeInv, NoEndLeaks, Owned, PipeEnds
<1>2. QED
  BY <1>1, PipeInvariant, PTL

(* The number of an end that is made and not consumed is never that of     *)
(* something else, whether pipe() succeeds or fails and whatever is opened *)
(* and closed meanwhile: avPipeDestroy and the consume calls close another *)
(* descriptor only through the number of an end that was consumed or never *)
(* made.                                                                   *)
THEOREM ForeignCloses == Spec => ForeignCloseIsStale
<1>1. ASSUME ProcessTypeOK, PipeInv, ProcessNext,
             NEW n \in Fds, fds[Parent][n] \in Foreign, fds'[Parent][n] \notin Foreign
      PROVE  \E e \in PipeEnds \ Owned : pipe[e] = n
  <2> USE ProcessesAre, ProcessesAreApart DEF ProcessTypeOK
  <2>1. ASSUME fds'[Parent] = fds[Parent] PROVE FALSE
    BY <1>1, <2>1
  <2>2. FreeFds(Parent) \subseteq Fds /\ n \notin FreeFds(Parent)
    BY <1>1 DEF FreeFds, Foreign
  <2>3. ASSUME PipeCreate PROVE FALSE
    <3> DEFINE r == Min(FreeFds(Parent))
               w == Min(FreeFds(Parent) \ {r})
    <3>1. r \in FreeFds(Parent) /\ w \in FreeFds(Parent) \ {r}
      BY <2>2, <2>3, TwoAreFree DEF PipeCreate
    <3>2. fds' = [fds EXCEPT ![Parent] = Opened(Opened(fds[Parent], r, "read"), w, "write")]
      BY <2>3 DEF PipeCreate
    <3> HIDE DEF r, w
    <3>3. fds'[Parent] = Opened(Opened(fds[Parent], r, "read"), w, "write")
      BY <1>1, <3>2
    <3>4. n # r /\ n # w
      BY <2>2, <3>1
    <3>5. fds'[Parent][n] = fds[Parent][n]
      BY <1>1, <3>3, <3>4 DEF Opened
    <3>6. QED
      BY <1>1, <3>5
  <2>4. ASSUME OpenFile PROVE FALSE
    <3>1. fds' = [fds EXCEPT ![Parent] = Opened(fds[Parent], Min(FreeFds(Parent)), "file")]
      BY <2>4 DEF OpenFile
    <3>2. fds'[Parent][n] \in {fds[Parent][n], "file"}
      BY <1>1, <3>1 DEF Opened
    <3>3. QED
      BY <1>1, <3>2 DEF Foreign
  <2>5. ASSUME NEW ns, Closes(ns) PROVE n \in ns
    BY <1>1, <2>5, ClosesTable
  <2>6. \A e \in PipeEnds : pipe[e] = n => e \notin Owned
    BY <1>1 DEF PipeInv, PipeEnds, Foreign
  <2>7. CASE ConsumeWriteChannel \/ ConsumeReadChannel \/ PipeDestroy
    <3>1. n = pipe.write \/ n = pipe.read
      BY <2>5, <2>7 DEF ConsumeWriteChannel, ConsumeReadChannel, PipeDestroy
    <3>2. PICK e \in PipeEnds : pipe[e] = n
      BY <3>1 DEF PipeEnds
    <3>3. QED
      BY <2>6, <3>2
  <2>8. ASSUME PipeCreateFails \/ PollReaps \/ PollFails \/ PollAgain \/ UNCHANGED processVars
        PROVE  FALSE
    BY <2>1, <2>8 DEF PipeCreateFails, PollReaps, PollFails, PollAgain, processVars
  <2>9. ASSUME NEW c \in Children, ChildStep(c) PROVE FALSE
    <3>1. fds'[Parent] = fds[Parent]
      BY <1>1, <2>9 DEF ChildStep, Redirect, ExecFails, ChildWrites, ChildReads, ChildExits, Ends
    <3>2. QED
      BY <2>1, <3>1
  <2>10. ASSUME NEW c \in Children,
               \/ \E input, output \in BOOLEAN : Start(c, input, output)
               \/ StartFails(c) \/ WaitExit(c) \/ Discard(c)
        PROVE  FALSE
    BY <1>1, <2>1, <2>10 DEF Start, StartFails, WaitExit, Discard
  <2>11. QED
    BY <1>1, <2>3, <2>4, <2>7, <2>8, <2>9, <2>10 DEF ProcessNext
<1>2. ProcessTypeOK /\ PipeInv /\ [Next]_platformVars
        => [\A n \in Fds :
               fds[Parent][n] \in Foreign /\ fds'[Parent][n] \notin Foreign
                 => \E e \in PipeEnds \ Owned : pipe[e] = n]_processVars
  BY <1>1 DEF Next, platformVars, processVars
<1>3. QED
  BY <1>2, PipeInvariant, PTL DEF Spec, ForeignCloseIsStale

(* A forked child has its parent's descriptors, the ends it was given      *)
(* among them; once it runs, its input is the read end, and it still has   *)
(* a write end if there was one to inherit.                                *)
HasWriteEnd(c) == \E n \in Fds : fds[c][n] = "write"
EndsInherited(c) ==
    /\ child[c].at = "forked" /\ (pipe.used = "no" \/ pipe.made) => StdKept(c)
    /\ child[c].at = "forked" /\ pipe.made =>
          /\ child[c].reads => fds[c][pipe.read] = "read"
          /\ child[c].writes => fds[c][pipe.write] = "write"
    /\ child[c].at \in {"forked", "running"} /\ (child[c].reads \/ child[c].writes)
          => pipe.used # "no"
    /\ child[c].at = "running" /\ child[c].reads /\ pipe.made => fds[c][0] = "read"
    /\ child[c].at \in {"forked", "running"} /\ child[c].heldWriteEnd => pipe.made /\ HasWriteEnd(c)
ChildInv == \A c \in Children : EndsInherited(c)

LEMMA ChildInvInit == ProcessInit => ChildInv
BY DEF ProcessInit, NotStarted, ChildInv, EndsInherited

(* close, dup2, close, for the one and for the other end.                  *)
LEMMA RedirectKeepsEnds ==
  ASSUME ProcessTypeOK, PipeInv, NEW c \in Children, EndsInherited(c), Redirect(c)
  PROVE  EndsInherited(c)'
<1> DEFINE Output(t) == IF child[c].writes THEN Redirected(t, 1, pipe.write) ELSE t
           Input(t) == IF child[c].reads THEN Redirected(t, 0, pipe.read) ELSE t
           out == Output(fds[c])
           in == Input(out)
<1>1. fds' = [fds EXCEPT ![c] = in]
  BY DEF Redirect
<1>2. fds'[c] = in
  <2> HIDE DEF in
  <2> QED
    BY <1>1, ProcessesAre DEF ProcessTypeOK
<1>3. fds[c] \in [Fds -> What] /\ 0 \in Fds /\ 1 \in Fds
  BY ProcessesAre DEF ProcessTypeOK
<1>4. child[c].at = "forked"
  BY DEF Redirect
<1>13. child' = [child EXCEPT ![c].at = "running"] /\ pipe' = pipe
  BY DEF Redirect
<1>14. /\ child'[c].at = "running"
       /\ child'[c].reads = child[c].reads
       /\ child'[c].writes = child[c].writes
       /\ child'[c].heldWriteEnd = child[c].heldWriteEnd
  BY <1>13 DEF ProcessTypeOK, ChildType
<1>15. CASE ~pipe.made
  BY <1>4, <1>13, <1>14, <1>15 DEF EndsInherited
<1>16. CASE pipe.made
  <2>5. /\ fds[c][0] = "tty" /\ fds[c][1] = "tty"
        /\ child[c].reads => fds[c][pipe.read] = "read"
        /\ child[c].writes => fds[c][pipe.write] = "write"
    BY <1>4, <1>16 DEF EndsInherited, StdKept
  <2>6. /\ pipe.read \in Fds /\ pipe.write \in Fds
        /\ pipe.read \notin {0, 1} /\ pipe.write \notin {0, 1} /\ pipe.read # pipe.write
    BY <1>16 DEF PipeInv
  <2>7. out \in [Fds -> What] /\ \A n \in Fds :
            out[n] = IF child[c].writes
                     THEN IF n = pipe.write THEN "closed" ELSE IF n = 1 THEN "write" ELSE fds[c][n]
                     ELSE fds[c][n]
    BY <1>3, <2>5, <2>6, RedirectedTable DEF NumberIs, Closed
  <2>8. child[c].reads => out[pipe.read] = "read"
    BY <1>3, <2>5, <2>6, <2>7
  <2>9. \A n \in Fds :
            in[n] = IF child[c].reads
                    THEN IF n = pipe.read THEN "closed" ELSE IF n = 0 THEN "read" ELSE out[n]
                    ELSE out[n]
    <3> HIDE DEF out
    <3> QED
      BY <1>3, <2>6, <2>7, <2>8, RedirectedTable DEF NumberIs, Closed
  <2> HIDE DEF out, in
  <2>11. child[c].reads => in[0] = "read"
    BY <1>3, <2>5, <2>6, <2>9
  <2>12. ASSUME child[c].heldWriteEnd PROVE \E n \in Fds : in[n] = "write"
    <3>1. CASE child[c].writes
      <4>1. out[1] = "write"
        BY <1>3, <2>5, <2>6, <2>7, <3>1
      <4>2. in[1] = "write"
        BY <1>3, <2>5, <2>6, <2>9, <4>1
      <4>3. QED
        BY <1>3, <4>2
    <3>2. CASE ~child[c].writes
      <4>1. PICK n \in Fds : fds[c][n] = "write"
        BY <1>4, <2>12 DEF EndsInherited, HasWriteEnd
      <4>2. n # 0 /\ (child[c].reads => n # pipe.read)
        BY <2>5, <4>1
      <4>3. in[n] = "write"
        BY <2>7, <2>9, <3>2, <4>1, <4>2
      <4>4. QED
        BY <4>3
    <3>3. QED
      BY <3>1, <3>2
  <2>13. child'[c].at = "running" /\ pipe' = pipe /\ pipe.used # "no"
    BY <1>13, <1>14, <1>16 DEF PipeInv
  <2>14. QED
    BY <1>2, <1>14, <1>16, <2>11, <2>12, <2>13 DEF EndsInherited, HasWriteEnd
<1>17. QED
  BY <1>15, <1>16

LEMMA ChildInvStep ==
  ASSUME ProcessTypeOK, PipeInv, ChildInv, ProcessNext
  PROVE  ChildInv'
<1> USE ProcessesAre, ProcessesAreApart DEF ProcessTypeOK
<1>0. /\ pipe.used = "no" => ~pipe.made
      /\ PipeCreate \/ PipeCreateFails => pipe.used = "no" /\ pipe'.used # "no"
  BY DEF PipeInv, PipeCreate, PipeCreateFails
<1>1. ASSUME NEW c \in Children, fds'[c] = fds[c], child'[c] = child[c],
             \/ pipe' = pipe
             \/ pipe.used = "no" /\ pipe'.used # "no"
             \/ /\ pipe'.read = pipe.read /\ pipe'.write = pipe.write
                /\ pipe'.used # "no" /\ pipe'.made = pipe.made
      PROVE  EndsInherited(c)'
  <2>1. EndsInherited(c)
    BY DEF ChildInv
  <2>2. CASE pipe' = pipe
    BY <1>1, <2>1, <2>2 DEF EndsInherited, HasWriteEnd, StdKept
  <2>3. CASE pipe.used = "no" /\ pipe'.used # "no"
    BY <1>0, <1>1, <2>1, <2>3 DEF EndsInherited, HasWriteEnd, StdKept
  <2>4. CASE /\ pipe'.read = pipe.read /\ pipe'.write = pipe.write
             /\ pipe'.used # "no" /\ pipe'.made = pipe.made
    BY <1>1, <2>1, <2>4 DEF EndsInherited, HasWriteEnd, StdKept
  <2>5. QED
    BY <1>1, <2>2, <2>3, <2>4
<1>2. CASE PipeCreate \/ PipeCreateFails \/ OpenFile
           \/ ConsumeWriteChannel \/ ConsumeReadChannel \/ PipeDestroy
           \/ PollFails \/ PollAgain \/ UNCHANGED processVars
  <2>1. child' = child
    BY <1>2 DEF PipeCreate, PipeCreateFails, OpenFile, ConsumeWriteChannel, ConsumeReadChannel,
                PipeDestroy, PollFails, PollAgain, Closes, processVars
  <2>2. \A c \in Children : fds'[c] = fds[c]
    BY <1>2 DEF PipeCreate, PipeCreateFails, OpenFile, ConsumeWriteChannel, ConsumeReadChannel,
                PipeDestroy, PollFails, PollAgain, Closes, processVars
  <2>3. \/ pipe' = pipe
        \/ pipe.used = "no" /\ pipe'.used # "no"
        \/ /\ pipe'.read = pipe.read /\ pipe'.write = pipe.write
           /\ pipe'.used # "no" /\ pipe'.made = pipe.made
    <3>1. CASE PipeDestroy
      BY <3>1 DEF PipeDestroy, PipeType
    <3>2. CASE ~PipeDestroy
      BY <1>0, <1>2, <3>2 DEF OpenFile, ConsumeWriteChannel, ConsumeReadChannel,
                              PollFails, PollAgain, processVars
    <3>3. QED
      BY <3>1, <3>2
  <2>4. QED
    BY <1>1, <2>1, <2>2, <2>3 DEF ChildInv
<1>3. CASE PollReaps
  <2>1. PICK d \in Awaited : child' = [child EXCEPT ![d].at = "reaped"]
    BY <1>3 DEF PollReaps
  <2>2. fds' = fds /\ pipe' = pipe
    BY <1>3 DEF PollReaps
  <2>3. ASSUME NEW c \in Children PROVE EndsInherited(c)'
    <3>1. CASE c = d
      <4>1. child'[c].at = "reaped"
        BY <2>1, <3>1 DEF ChildType
      <4>2. QED
        BY <4>1 DEF EndsInherited
    <3>2. CASE c # d
      BY <1>1, <2>1, <2>2, <3>2
    <3>3. QED
      BY <3>1, <3>2
  <2>4. QED
    BY <2>3 DEF ChildInv
<1>4. ASSUME NEW c \in Children, EndsInherited(c)', pipe' = pipe,
             \A d \in Children \ {c} : child'[d] = child[d] /\ fds'[d] = fds[d]
      PROVE  ChildInv'
  BY <1>1, <1>4 DEF ChildInv
<1>5. ASSUME NEW c \in Children, NEW input \in BOOLEAN, NEW output \in BOOLEAN,
             Start(c, input, output)
      PROVE  ChildInv'
  <2>1. fds'[c] = fds[Parent] /\ pipe' = pipe
    BY <1>5 DEF Start
  <2>2. /\ child'[c].at = "forked"
        /\ child'[c].reads => input
        /\ child'[c].writes => output
        /\ child'[c].heldWriteEnd => \E d \in Fds : fds[Parent][d] = "write"
    BY <1>5 DEF Start
  <2>3. /\ input => pipe.used = "yes" /\ "read" \notin consumed
        /\ output => pipe.used = "yes" /\ "write" \notin consumed
    BY <1>5 DEF Start, Usable
  <2>7. /\ pipe.made /\ input => fds[Parent][pipe.read] = "read"
        /\ pipe.made /\ output => fds[Parent][pipe.write] = "write"
    BY <2>3 DEF PipeInv, Owned, PipeEnds
  <2>8. (\E d \in Fds : fds[Parent][d] = "write") => pipe.made
    BY DEF PipeInv, Owned
  <2>9. (pipe.used = "no" \/ pipe.made) => StdKept(Parent)
    BY DEF PipeInv
  <2>4. EndsInherited(c)'
    BY <2>1, <2>2, <2>3, <2>7, <2>8, <2>9 DEF EndsInherited, HasWriteEnd, StdKept
  <2>5. \A d \in Children \ {c} : child'[d] = child[d] /\ fds'[d] = fds[d]
    BY <1>5 DEF Start
  <2>6. QED
    BY <1>4, <2>1, <2>4, <2>5
<1>6. ASSUME NEW c \in Children, StartFails(c) \/ WaitExit(c) \/ Discard(c) PROVE ChildInv'
  BY <1>1, <1>6 DEF StartFails, WaitExit, Discard, ChildInv
<1>7. ASSUME NEW c \in Children, ChildStep(c) PROVE ChildInv'
  <2>1. \A d \in Children \ {c} : child'[d] = child[d] /\ fds'[d] = fds[d]
    BY <1>7 DEF ChildStep, Redirect, ExecFails, ChildWrites, ChildReads, ChildExits, Ends
  <2>2. pipe' = pipe
    BY <1>7 DEF ChildStep, Redirect, ExecFails, ChildWrites, ChildReads, ChildExits, Ends
  <2>3. CASE Redirect(c)
    BY <1>4, <2>1, <2>2, <2>3, RedirectKeepsEnds DEF ChildInv
  <2>4. CASE ExecFails(c) \/ ChildExits(c)
    <3>1. child'[c].at = "exited"
      BY <2>4 DEF ExecFails, ChildExits, Ends, NotStarted
    <3>2. EndsInherited(c)'
      BY <3>1 DEF EndsInherited
    <3>3. QED
      BY <1>4, <2>1, <2>2, <3>2
  <2>5. CASE ChildWrites(c) \/ ChildReads(c)
    <3>1. fds' = fds
      BY <2>5 DEF ChildWrites, ChildReads
    <3>2. /\ child'[c].at = child[c].at
          /\ child'[c].reads = child[c].reads
          /\ child'[c].writes = child[c].writes
          /\ child'[c].heldWriteEnd = child[c].heldWriteEnd
          /\ child[c].at = "running"
      BY <2>5 DEF ChildWrites, ChildReads, ChildType
    <3>3. EndsInherited(c)'
      BY <2>2, <3>1, <3>2 DEF ChildInv, EndsInherited, HasWriteEnd, StdKept
    <3>4. QED
      BY <1>4, <2>1, <2>2, <3>3
  <2>6. QED
    BY <1>7, <2>3, <2>4, <2>5 DEF ChildStep
<1>8. QED
  BY <1>2, <1>3, <1>5, <1>6, <1>7 DEF ProcessNext

(* A child that reads the pipe and inherited its write end never comes to  *)
(* the end of its input, whatever the program closes afterwards.           *)
THEOREM OwnEndBlocks == Spec => OwnWriteEndBlocks
<1>1. Init => ChildInv
  BY ChildInvInit DEF Init
<1>2. ChildInv /\ UNCHANGED processVars => ChildInv'
  BY DEF ChildInv, EndsInherited, HasWriteEnd, StdKept, processVars
<1>3. ProcessTypeOK /\ PipeInv /\ ChildInv /\ [Next]_platformVars => ChildInv'
  BY <1>2, ChildInvStep DEF Next, platformVars
<1>4. ASSUME ProcessTypeOK, ChildInv, ProcessNext, NEW c \in Children,
             child[c].at = "running", child[c].reads, child[c].heldWriteEnd
      PROVE  child'[c].at = "running"
  <2> USE ProcessesAre DEF ProcessTypeOK
  <2>1. fds[c][0] = "read" /\ HasOpen("write")
    BY <1>4 DEF ChildInv, EndsInherited, HasWriteEnd, HasOpen
  <2>2. ~ChildExits(c) /\ ~Redirect(c) /\ ~ExecFails(c)
    BY <1>4, <2>1 DEF ChildExits, Redirect, ExecFails
  <2>3. ASSUME NEW d \in Children, ChildStep(d) PROVE child'[c].at = "running"
    <3>1. CASE d = c
      BY <1>4, <2>2, <2>3, <3>1 DEF ChildStep, ChildWrites, ChildReads, ChildType
    <3>2. CASE d # c
      BY <1>4, <2>3, <3>2 DEF ChildStep, Redirect, ExecFails, ChildWrites, ChildReads,
                              ChildExits, Ends
    <3>3. QED
      BY <3>1, <3>2
  <2>4. CASE PollReaps
    <3>1. PICK d \in Awaited : child[d].at = "exited" /\ child' = [child EXCEPT ![d].at = "reaped"]
      BY <2>4 DEF PollReaps
    <3>2. d # c
      BY <1>4, <3>1
    <3>3. QED
      BY <1>4, <3>1, <3>2
  <2>5. CASE PipeCreate \/ PipeCreateFails \/ OpenFile
             \/ ConsumeWriteChannel \/ ConsumeReadChannel \/ PipeDestroy
             \/ PollFails \/ PollAgain \/ UNCHANGED processVars
    BY <1>4, <2>5 DEF PipeCreate, PipeCreateFails, OpenFile, ConsumeWriteChannel,
                      ConsumeReadChannel, PipeDestroy, PollFails, PollAgain, Closes, processVars
  <2>6. ASSUME NEW d \in Children,
               \/ \E input, output \in BOOLEAN : Start(d, input, output)
               \/ StartFails(d) \/ WaitExit(d) \/ Discard(d)
        PROVE  child'[c].at = "running"
    BY <1>4, <2>6 DEF Start, StartFails, WaitExit, Discard
  <2>7. QED
    BY <1>4, <2>3, <2>4, <2>5, <2>6 DEF ProcessNext
<1>5. ProcessTypeOK /\ ChildInv /\ [Next]_platformVars
        => [\A c \in Children : child[c].at = "running" /\ child[c].reads /\ child[c].heldWriteEnd
                                   => child'[c].at = "running"]_processVars
  BY <1>4 DEF Next, platformVars, processVars
<1>6. QED
  BY <1>1, <1>3, <1>5, PipeInvariant, PTL DEF Spec, OwnWriteEndBlocks

--------------------------------------------------------------------------------
(* Semaphores and condition variables.                                     *)

(* The posts that are under way, one for each permit still to be posted.   *)
Pending == {p \in Threads \X (1..MaxPosted) : p[2] <= posting[p[1]]}

SemaphoreInv ==
    /\ value \in Int
    /\ posting \in [Threads -> 0..MaxPosted]
    /\ sum \in [asked : Nat, taken : Int, interrupted : Int]
    /\ value + sum.taken + Cardinality(Pending) = InitialCount + sum.asked + sum.interrupted

LEMMA PendingIsFinite == IsFiniteSet(Pending) /\ Cardinality(Pending) \in Nat
<1>1. IsFiniteSet(1..MaxPosted)
  BY FS_Interval, CountsAreNatural
<1>2. IsFiniteSet(Threads \X (1..MaxPosted))
  BY <1>1, ThreadsAreFinite, FS_Product
<1>3. Pending \subseteq Threads \X (1..MaxPosted)
  BY DEF Pending
<1>4. QED
  BY <1>2, <1>3, FS_Subset, FS_CardinalityType

LEMMA SemaphoreInvInit == SyncInit => SemaphoreInv
<1> SUFFICES ASSUME SyncInit PROVE SemaphoreInv
  OBVIOUS
<1> USE CountsAreNatural
<1>1. Pending = {}
  BY DEF SyncInit, Pending
<1>2. Cardinality(Pending) = 0
  BY <1>1, FS_EmptySet
<1>3. QED
  BY <1>2 DEF SyncInit, SemaphoreInv

(* One permit is posted: one post less is under way.                       *)
LEMMA PostOneKeeps ==
  ASSUME SemaphoreInv, NEW t \in Threads, PostOne(t)
  PROVE  SemaphoreInv'
<1> USE CountsAreNatural DEF SemaphoreInv, PostOne
<1> DEFINE p == <<t, posting[t]>>
<1>1. posting' = [posting EXCEPT ![t] = posting[t] - 1] /\ posting[t] \in 1..MaxPosted
  OBVIOUS
<1>2. p \in Pending
  BY <1>1 DEF Pending
<1>3. Pending' = Pending \ {p}
  <2>1. ASSUME NEW u \in Threads, NEW i \in 1..MaxPosted
        PROVE  i <= posting'[u] <=> i <= posting[u] /\ <<u, i>> # p
    BY <1>1
  <2>2. QED
    BY <2>1 DEF Pending
<1>4. Cardinality(Pending') = Cardinality(Pending) - 1
  BY <1>2, <1>3, PendingIsFinite, FS_RemoveElement
<1>5. posting' \in [Threads -> 0..MaxPosted]
  BY <1>1
<1>6. QED
  BY <1>4, <1>5, PendingIsFinite

(* A call is asked to post n: n more posts are under way.                  *)
LEMMA PostCountKeeps ==
  ASSUME SemaphoreInv, NEW t \in Threads, NEW n \in 1..MaxPosted, PostCount(t, n)
  PROVE  SemaphoreInv'
<1> USE CountsAreNatural DEF SemaphoreInv, PostCount
<1> DEFINE added == {t} \X (1..n)
<1>1. posting' = [posting EXCEPT ![t] = n] /\ posting[t] = 0
  OBVIOUS
<1>2. Pending' = Pending \cup added /\ Pending \cap added = {}
  <2>1. ASSUME NEW u \in Threads, NEW i \in 1..MaxPosted
        PROVE  i <= posting'[u] <=> (i <= posting[u] \/ (u = t /\ i \in 1..n))
    <3>1. CASE u = t
      <4>1. posting'[u] = n /\ posting[u] = 0
        BY <1>1, <3>1
      <4>2. QED
        BY <3>1, <4>1
    <3>2. CASE u # t
      BY <1>1, <3>2
    <3>3. QED
      BY <3>1, <3>2
  <2>2. ASSUME NEW i \in 1..MaxPosted PROVE ~(i <= posting[t])
    BY <1>1
  <2>3. added \subseteq Threads \X (1..MaxPosted)
    OBVIOUS
  <2>4. QED
    BY <2>1, <2>2, <2>3 DEF Pending
<1>3. IsFiniteSet(added) /\ Cardinality(added) = n
  <2>1. IsFiniteSet({t}) /\ Cardinality({t}) = 1
    BY FS_Singleton
  <2>2. IsFiniteSet(1..n) /\ Cardinality(1..n) = n
    <3>1. 1 \in Int /\ n \in Int /\ ~(1 > n)
      OBVIOUS
    <3>2. IsFiniteSet(1..n) /\ Cardinality(1..n) = IF 1 > n THEN 0 ELSE n - 1 + 1
      BY ONLY <3>1, FS_Interval
    <3>3. QED
      BY <3>1, <3>2
  <2>3. IsFiniteSet(added) /\ Cardinality(added) = Cardinality({t}) * Cardinality(1..n)
    BY ONLY <2>1, <2>2, FS_Product
  <2>4. n \in Nat
    OBVIOUS
  <2> HIDE DEF added
  <2>5. QED
    BY ONLY <2>1, <2>2, <2>3, <2>4
<1>4. Cardinality(Pending') = Cardinality(Pending) + n
  <2> HIDE DEF added
  <2>1. Cardinality(Pending \cup added)
            = Cardinality(Pending) + Cardinality(added) - Cardinality(Pending \cap added)
    BY ONLY <1>3, PendingIsFinite, FS_Union
  <2>2. Cardinality(Pending \cap added) = 0
    BY ONLY <1>2, FS_EmptySet
  <2>3. QED
    BY <1>2, <1>3, <2>1, <2>2, PendingIsFinite
<1>5. posting' \in [Threads -> 0..MaxPosted]
  BY <1>1
<1>6. QED
  BY <1>4, <1>5, PendingIsFinite

LEMMA SemaphoreInvStep ==
  ASSUME SemaphoreInv, SyncNext
  PROVE  SemaphoreInv'
<1>1. ASSUME value' = value, posting' = posting, sum' = sum PROVE SemaphoreInv'
  BY <1>1 DEF SemaphoreInv, Pending
<1>2. ASSUME NEW t \in Threads, SemaphoreWait(t) \/ WaitInterrupted(t) PROVE SemaphoreInv'
  <2>1. posting' = posting
    BY <1>2 DEF SemaphoreWait, WaitInterrupted
  <2>2. Pending' = Pending
    BY <2>1 DEF Pending
  <2>3. Cardinality(Pending') = Cardinality(Pending) /\ Cardinality(Pending) \in Nat
    BY <2>2, PendingIsFinite
  <2>4. CASE SemaphoreWait(t)
    BY <2>1, <2>3, <2>4, CountsAreNatural DEF SemaphoreWait, SemaphoreInv
  <2>5. CASE WaitInterrupted(t)
    <3>1. /\ sum' \in [asked : Nat, taken : Int, interrupted : Int]
          /\ sum'.taken = sum.taken + 1 /\ sum'.interrupted = sum.interrupted + 1
          /\ sum'.asked = sum.asked
      <4>1. sum' = [sum EXCEPT !.taken = sum.taken + 1, !.interrupted = sum.interrupted + 1]
        BY <2>5 DEF WaitInterrupted
      <4>2. sum \in [asked : Nat, taken : Int, interrupted : Int]
        BY DEF SemaphoreInv
      <4>3. sum.taken + 1 \in Int /\ sum.interrupted + 1 \in Int
        BY <4>2
      <4>4. QED
        BY ONLY <4>1, <4>2, <4>3
    <3>2. sum.taken \in Int /\ sum.interrupted \in Int /\ sum.asked \in Nat /\ value \in Int
      BY DEF SemaphoreInv
    <3>3. value' = value
      BY <2>5 DEF WaitInterrupted
    <3>4. value' + sum'.taken + Cardinality(Pending') = InitialCount + sum'.asked + sum'.interrupted
      BY <2>3, <3>1, <3>2, <3>3, CountsAreNatural DEF SemaphoreInv
    <3>5. QED
      BY <2>1, <3>1, <3>2, <3>3, <3>4 DEF SemaphoreInv
  <2>6. QED
    BY <1>2, <2>4, <2>5
<1>3. ASSUME NEW t \in Threads, ConditionStep(t) PROVE SemaphoreInv'
  BY <1>1, <1>3 DEF ConditionStep, MutexLock, MutexUnlock, SetAndSignal, ConditionWait, TimedWait,
                    semaphoreVars, syncVars
<1>4. CASE WakesByItself \/ UNCHANGED syncVars
  BY <1>1, <1>4 DEF WakesByItself, semaphoreVars, syncVars
<1>6. ASSUME NEW t \in Threads, TryWaitFails(t) \/ SemaphoreTimedWait(t) PROVE SemaphoreInv'
  BY <1>4, <1>6 DEF TryWaitFails, SemaphoreTimedWait
<1>5. QED
  BY <1>2, <1>3, <1>4, <1>6, PostOneKeeps, PostCountKeeps DEF SyncNext

(* Permits are neither lost nor invented, for any number of threads that   *)
(* wait and post in any order: what is missing is still being posted.      *)
THEOREM PermitsStayConserved == Spec => []PermitsConserved
<1>1. Init => SemaphoreInv
  BY SemaphoreInvInit DEF Init
<1>2. SemaphoreInv /\ UNCHANGED syncVars => SemaphoreInv'
  BY DEF SemaphoreInv, Pending, syncVars, semaphoreVars
<1>3. SemaphoreInv /\ [Next]_platformVars => SemaphoreInv'
  BY <1>2, SemaphoreInvStep DEF Next, platformVars
<1>4. SemaphoreInv => PermitsConserved
  <2> SUFFICES ASSUME SemaphoreInv, \A t \in Threads : posting[t] = 0
               PROVE  value + sum.taken = InitialCount + sum.asked + sum.interrupted
    BY DEF PermitsConserved
  <2>1. Pending = {}
    BY DEF Pending
  <2>2. Cardinality(Pending) = 0
    BY <2>1, FS_EmptySet
  <2>3. QED
    BY <2>2, CountsAreNatural DEF SemaphoreInv
<1>5. QED
  BY <1>1, <1>3, <1>4, PTL DEF Spec

--------------------------------------------------------------------------------
(* Directories.                                                            *)

Kinds == {"none", "file", "dir", "link", "broken"}
NodeType == [kind : Kinds, in : Nodes \cup {Elsewhere, Nowhere}]
FrameType == [node : Nodes, at : {"opening", "reading", "removing"},
              dir : Nodes \cup {Elsewhere}, due : SUBSET Nodes, seen : SUBSET Nodes,
              file : Nodes \cup {Nowhere}]

DeleteTypeOK ==
    /\ tree \in [Nodes -> NodeType]
    /\ before \in Trees
    /\ changes \in Nat
    /\ stack \in Seq(FrameType)
    /\ result \in {"none", "true", "false"}
    /\ stack # <<>> => stack[1].node = Top /\ result = "none"

(* An entry is in a directory that exists.                                 *)
Attached(t) ==
    \A n \in Nodes : t[n].kind # "none" /\ t[n].in \in Nodes => t[t[n].in].kind = "dir"

(* What the call has removed so far are files and directories.             *)
Removed(n) == tree[n].kind = "none" /\ before[n].kind \in {"file", "dir"}
OnlyRemoved == \A n \in Nodes : tree[n] = before[n] \/ Removed(n)

(* In a tree of files and directories: the frames are nested directories   *)
(* that exist and can be opened, and an entry that was seen is gone, or    *)
(* the one that is being deleted.                                          *)
FrameOK(t, s, i) ==
    /\ s[i].at # "removing"
    /\ s[i].dir = s[i].node /\ t[s[i].node].kind = "dir"
    /\ Entries(t, s[i].node) \subseteq s[i].due
    /\ \A n \in s[i].seen \cap Entries(t, s[i].node) :
          n = s[i].file \/ (i < Len(s) /\ n = s[i + 1].node)
    /\ s[i].file # Nowhere => t[s[i].file].kind = "file" /\ t[s[i].file].in = s[i].node
    /\ i < Len(s) => s[i].file = Nowhere /\ t[s[i + 1].node].in = s[i].node
Deletes ==
    /\ result # "false"
    /\ \A i \in 1..Len(stack) : FrameOK(tree, stack, i)
    /\ \A n \in Nodes : tree[n] # before[n] => before[n].in # Elsewhere

DeleteInv ==
    /\ DeleteTypeOK
    /\ Attached(tree)
    /\ result = "true" => tree[Top].kind = "none"
    /\ changes = 0 => OnlyRemoved
    /\ changes = 0 /\ stack = <<>> /\ result = "none" => tree = before
    /\ changes = 0 /\ Plain => Deletes

LEMMA TreeFacts ==
  ASSUME NEW t \in Trees
  PROVE  /\ t \in [Nodes -> NodeType]
         /\ t[Top] = [kind |-> "dir", in |-> Nowhere]
         /\ \A n \in Nodes \ {Top} :
               /\ t[n].in \in Nodes \cup {Elsewhere}
               /\ t[n].in \in Nodes \ {Top} => t[t[n].in] = [kind |-> "dir", in |-> Top]
               /\ t[n].in = Elsewhere => t[n].kind \in {"none", "file"}
<1> USE PlacesAreApart
<1> DEFINE Below == [Nodes \ {Top} -> [kind : Kinds, in : Nodes \cup {Elsewhere}]]
           With(s) == [n \in Nodes |-> IF n = Top THEN [kind |-> "dir", in |-> Nowhere] ELSE s[n]]
<1>1. PICK s \in Below :
          /\ t = With(s)
          /\ \A n \in DOMAIN s :
                /\ s[n].in # n
                /\ s[n].in \in DOMAIN s => s[s[n].in] = [kind |-> "dir", in |-> Top]
                /\ s[n].in = Elsewhere => s[n].kind \in {"none", "file"}
                /\ s[n].kind = "none" => s[n].in = Elsewhere
  BY DEF Trees, Kinds
<1>2. \A n \in Nodes \ {Top} : t[n] = s[n] /\ s[n] \in [kind : Kinds, in : Nodes \cup {Elsewhere}]
  BY <1>1
<1>3. t[Top] = [kind |-> "dir", in |-> Nowhere] /\ DOMAIN t = Nodes
  BY <1>1
<1>4. \A n \in Nodes : t[n] \in NodeType
  <2>1. [kind |-> "dir", in |-> Nowhere] \in NodeType
    BY DEF NodeType, Kinds
  <2>2. \A n \in Nodes \ {Top} : t[n] \in NodeType
    BY <1>2 DEF NodeType
  <2>3. QED
    BY <1>3, <2>1, <2>2
<1>5. t \in [Nodes -> NodeType]
  BY <1>1, <1>4
<1>6. DOMAIN s = Nodes \ {Top}
  BY <1>1
<1>7. QED
  BY <1>1, <1>2, <1>3, <1>5, <1>6

LEMMA DeleteInvInit == DeleteInit => DeleteInv
<1> SUFFICES ASSUME DeleteInit PROVE DeleteInv
  OBVIOUS
<1>1. tree \in Trees /\ before = tree /\ stack = <<>> /\ result = "none" /\ changes = 0
  BY DEF DeleteInit
<1>2. DeleteTypeOK
  BY <1>1, TreeFacts DEF DeleteTypeOK
<1>3. Attached(tree)
  <2>1. ASSUME NEW n \in Nodes, tree[n].kind # "none", tree[n].in \in Nodes
        PROVE  tree[tree[n].in].kind = "dir"
    <3>1. n # Top
      BY <1>1, <2>1, TreeFacts, PlacesAreApart
    <3>2. tree[n].in \in Nodes \ {Top} => tree[tree[n].in] = [kind |-> "dir", in |-> Top]
      BY <1>1, <3>1, TreeFacts
    <3>3. tree[Top] = [kind |-> "dir", in |-> Nowhere]
      BY <1>1, TreeFacts
    <3>4. QED
      BY <2>1, <3>2, <3>3
  <2>2. QED
    BY <2>1 DEF Attached
<1>4. OnlyRemoved
  BY <1>1 DEF OnlyRemoved
<1>5. Deletes
  BY <1>1 DEF Deletes
<1>6. QED
  BY <1>1, <1>2, <1>3, <1>4, <1>5 DEF DeleteInv

(* As long as nobody else changes the tree, links stay in it, and hold     *)
(* the directories above them.                                             *)
LEMMA PlainWhenGone ==
  ASSUME DeleteTypeOK, Attached(tree), OnlyRemoved, tree[Top].kind = "none"
  PROVE  Plain
<1> SUFFICES ASSUME NEW n \in Nodes, before[n].kind \in {"link", "broken"} PROVE FALSE
  BY DEF Plain
<1>1. before \in Trees
  BY DEF DeleteTypeOK
<1>2. tree[n] = before[n]
  BY DEF OnlyRemoved, Removed
<1>3. n # Top /\ before[n].in \in Nodes
  BY <1>1, TreeFacts
<1> DEFINE p == before[n].in
<1>4. tree[p].kind = "dir"
  BY <1>2, <1>3 DEF Attached
<1>5. p \in Nodes \ {Top}
  BY <1>3, <1>4
<1>6. tree[p] = before[p]
  BY <1>4, <1>5 DEF OnlyRemoved, Removed
<1>7. before[p] = [kind |-> "dir", in |-> Top]
  BY <1>1, <1>3, <1>5, TreeFacts
<1>8. tree[Top].kind = "dir"
  <2>1. tree[p].kind = "dir" /\ tree[p].in = Top
    BY <1>6, <1>7
  <2>2. QED
    BY <1>5, <2>1, PlacesAreApart DEF Attached
<1>9. QED
  BY <1>8

LEMMA GoneFacts ==
  ASSUME tree \in [Nodes -> NodeType], NEW n \in Nodes
  PROVE  /\ Gone(n) \in [Nodes -> NodeType]
         /\ Gone(n)[n].kind = "none"
         /\ \A m \in Nodes \ {n} : Gone(n)[m] = tree[m]
<1>1. [kind |-> "none", in |-> Elsewhere] \in NodeType
  BY DEF NodeType, Kinds
<1>2. QED
  BY <1>1 DEF Gone

LEMMA GoneStaysAttached ==
  ASSUME tree \in [Nodes -> NodeType], Attached(tree), NEW n \in Nodes,
         \A m \in Nodes : tree[m].kind # "none" => tree[m].in # n
  PROVE  Attached(Gone(n))
<1> SUFFICES ASSUME NEW m \in Nodes, Gone(n)[m].kind # "none", Gone(n)[m].in \in Nodes
             PROVE  Gone(n)[Gone(n)[m].in].kind = "dir"
  BY DEF Attached
<1>1. m # n /\ Gone(n)[m] = tree[m]
  BY GoneFacts
<1>2. tree[m].in \in Nodes \ {n}
  BY <1>1
<1>3. Gone(n)[tree[m].in] = tree[tree[m].in]
  BY <1>2, GoneFacts
<1>4. QED
  BY <1>1, <1>2, <1>3 DEF Attached

(* What has no entries: a file, and a directory that can be removed.       *)
LEMMA FilesHaveNoEntries ==
  ASSUME Attached(tree), NEW n \in Nodes, tree[n].kind # "dir"
  PROVE  \A m \in Nodes : tree[m].kind # "none" => tree[m].in # n
BY DEF Attached

LEMMA LastFrame ==
  ASSUME NEW s \in Seq(FrameType), s # <<>>, NEW f \in FrameType
  PROVE  LET t == [s EXCEPT ![Len(s)] = f]
         IN  /\ Len(s) \in 1..Len(s) /\ s[Len(s)] \in FrameType
             /\ t \in Seq(FrameType) /\ Len(t) = Len(s) /\ t # <<>>
             /\ t[Len(s)] = f
             /\ \A i \in 1..Len(s) : i # Len(s) => t[i] = s[i]
<1> DEFINE t == [s EXCEPT ![Len(s)] = f]
<1>1. Len(s) \in Nat \ {0} /\ DOMAIN s = 1..Len(s)
  OBVIOUS
<1>2. Len(s) \in 1..Len(s)
  BY <1>1
<1>3. t \in [1..Len(s) -> FrameType]
  BY <1>1, <1>2
<1>4. t \in Seq(FrameType) /\ Len(t) = Len(s)
  BY <1>1, <1>3
<1>5. t[Len(s)] = f /\ \A i \in 1..Len(s) : i # Len(s) => t[i] = s[i]
  BY <1>1, <1>2
<1>6. t # <<>>
  BY <1>1, <1>4
<1>7. s[Len(s)] \in FrameType
  BY <1>2
<1> HIDE DEF t
<1>8. QED
  BY <1>2, <1>4, <1>5, <1>6, <1>7 DEF t

LEMMA FrontFacts ==
  ASSUME NEW s \in Seq(FrameType), s # <<>>
  PROVE  /\ Front(s) \in Seq(FrameType) /\ Len(Front(s)) = Len(s) - 1
         /\ \A i \in 1..(Len(s) - 1) : Front(s)[i] = s[i]
         /\ Len(s) = 1 => Front(s) = <<>>
<1>1. Len(s) \in Nat \ {0}
  OBVIOUS
<1>2. Front(s) = SubSeq(s, 1, Len(s) - 1)
  BY DEF Front
<1>3. \A i \in 1..(Len(s) - 1) : s[i] \in FrameType
  BY <1>1
<1>4. /\ Front(s) \in Seq(FrameType) /\ Len(Front(s)) = Len(s) - 1
      /\ \A i \in 1..(Len(s) - 1) : Front(s)[i] = s[i]
  <2> DEFINE last == Len(s) - 1
  <2>1. 1 \in Int /\ last \in Int /\ \A i \in 1..last : s[i] \in FrameType
    BY <1>1, <1>3
  <2> HIDE DEF last
  <2>2. /\ SubSeq(s, 1, last) \in Seq(FrameType)
        /\ Len(SubSeq(s, 1, last)) = IF 1 <= last THEN last - 1 + 1 ELSE 0
        /\ \A i \in 1..(last - 1 + 1) : SubSeq(s, 1, last)[i] = s[1 + i - 1]
    BY ONLY <2>1, SequenceFacts!SubSeqProperties
  <2>3. last >= 0 /\ \A i \in 1..last : s[1 + i - 1] = s[i]
    BY <1>1 DEF last
  <2>4. Len(SubSeq(s, 1, last)) = last
    BY <2>1, <2>2, <2>3
  <2>5. \A i \in 1..last : SubSeq(s, 1, last)[i] = s[i]
    BY <2>1, <2>2, <2>3
  <2>6. QED
    BY <1>2, <2>2, <2>4, <2>5 DEF last
<1>5. Len(s) = 1 => Front(s) = <<>>
  BY <1>4
<1>6. QED
  BY <1>3, <1>4, <1>5

LEMMA PushedFrame ==
  ASSUME NEW s \in Seq(FrameType), NEW f \in FrameType
  PROVE  LET t == s \o <<f>>
         IN  /\ t \in Seq(FrameType) /\ t # <<>> /\ Len(t) = Len(s) + 1
             /\ t[Len(s) + 1] = f
             /\ \A i \in 1..Len(s) : t[i] = s[i]
<1>1. Len(s) \in Nat
  OBVIOUS
<1>2. <<f>> \in Seq(FrameType) /\ Len(<<f>>) = 1 /\ <<f>>[1] = f
  OBVIOUS
<1> DEFINE t == s \o <<f>>
<1>3. /\ t \in Seq(FrameType) /\ Len(t) = Len(s) + Len(<<f>>)
      /\ \A i \in 1..(Len(s) + Len(<<f>>)) : t[i] = IF i <= Len(s) THEN s[i] ELSE <<f>>[i - Len(s)]
  BY ONLY <1>2, SequenceFacts!ConcatProperties
<1> HIDE DEF t
<1>4. Len(t) = Len(s) + 1
  BY <1>2, <1>3
<1>5. \A i \in 1..Len(s) : t[i] = s[i]
  BY <1>1, <1>2, <1>3
<1>6. t[Len(s) + 1] = f
  <2>1. Len(s) + 1 \in 1..(Len(s) + Len(<<f>>)) /\ ~(Len(s) + 1 <= Len(s)) /\ Len(s) + 1 - Len(s) = 1
    BY <1>1, <1>2
  <2>2. QED
    BY <1>2, <1>3, <2>1
<1>7. t # <<>>
  BY <1>1, <1>4
<1>8. QED
  BY <1>3, <1>4, <1>5, <1>6, <1>7 DEF t

LEMMA FrameTypes ==
  ASSUME tree \in [Nodes -> NodeType], NEW n \in Nodes
  PROVE  Frame(n) \in FrameType
BY DEF Frame, FrameType

(* The newest frame, when an entry was read.                               *)
SeenFrame(n) == [Current EXCEPT !.seen = @ \cup {n}]

LEMMA SeenFacts ==
  ASSUME DeleteTypeOK, stack # <<>>, NEW n \in Nodes
  PROVE  /\ Current \in FrameType
         /\ SeenFrame(n) \in FrameType
         /\ SeenFrame(n).seen = Current.seen \cup {n}
         /\ SeenFrame(n).node = Current.node /\ SeenFrame(n).dir = Current.dir
         /\ SeenFrame(n).due = Current.due /\ SeenFrame(n).file = Current.file
         /\ SeenFrame(n).at = Current.at
         /\ Seen(n) = [stack EXCEPT ![Len(stack)] = SeenFrame(n)]
<1>1. stack \in Seq(FrameType)
  BY DEF DeleteTypeOK
<1>2. Current \in FrameType
  <2>1. Len(stack) \in 1..Len(stack)
    BY <1>1
  <2>2. QED
    BY <1>1, <2>1 DEF Current
<1>3. Current.seen \cup {n} \in SUBSET Nodes
  BY <1>2 DEF FrameType
<1>4. /\ SeenFrame(n) \in FrameType
      /\ SeenFrame(n).seen = Current.seen \cup {n}
      /\ SeenFrame(n).node = Current.node /\ SeenFrame(n).dir = Current.dir
      /\ SeenFrame(n).due = Current.due /\ SeenFrame(n).file = Current.file
      /\ SeenFrame(n).at = Current.at
  BY <1>2, <1>3 DEF SeenFrame, FrameType
<1>5. Seen(n) = [stack EXCEPT ![Len(stack)] = SeenFrame(n)]
  BY DEF Seen, SeenFrame, Current
<1>6. QED
  BY <1>2, <1>4, <1>5

(* In a tree without links, the directory behind a path is its own.        *)
LEMMA PlainKinds ==
  ASSUME DeleteTypeOK, OnlyRemoved, Plain, NEW n \in Nodes
  PROVE  /\ tree[n].kind \in {"none", "file", "dir"}
         /\ IsDir(n) => tree[n].kind = "dir" /\ Dir(n) = n
<1>1. before[n].kind \in {"none", "file", "dir"}
  <2>1. before[n] \in NodeType
    BY TreeFacts DEF DeleteTypeOK
  <2>2. QED
    BY <2>1 DEF NodeType, Kinds, Plain
<1>2. tree[n].kind \in {"none", "file", "dir"}
  BY <1>1 DEF OnlyRemoved, Removed
<1>3. QED
  BY <1>2 DEF IsDir, Dir

LEMMA DeleteTopStep ==
  ASSUME DeleteInv, DeleteTop
  PROVE  DeleteInv'
<1> USE PlacesAreApart DEF DeleteInv
<1>1. /\ stack' = <<Frame(Top)>> /\ result = "none" /\ stack = <<>>
      /\ tree' = tree /\ result' = result /\ before' = before /\ changes' = changes
  BY DEF DeleteTop
<1>2. Frame(Top) \in FrameType /\ Frame(Top).node = Top
  BY FrameTypes DEF DeleteTypeOK, Frame
<1>3. DeleteTypeOK'
  BY <1>1, <1>2 DEF DeleteTypeOK
<1>4. Attached(tree') /\ (changes' = 0 => OnlyRemoved')
  BY <1>1 DEF OnlyRemoved, Removed
<1>5. ASSUME changes' = 0, Plain' PROVE Deletes'
  <2>1. OnlyRemoved /\ Plain /\ Deletes
    BY <1>1, <1>5 DEF Plain
  <2>2. tree[Top].kind = "dir"
    BY <1>1, <1>5, TreeFacts DEF DeleteTypeOK
  <2>3. Len(stack') = 1 /\ stack'[1] = Frame(Top)
    BY <1>1
  <2>4. FrameOK(tree, stack', 1)
    BY <2>2, <2>3 DEF FrameOK, Frame, Entries
  <2>5. \A i \in 1..Len(stack') : FrameOK(tree, stack', i)
    BY <2>3, <2>4
  <2>6. QED
    BY <1>1, <2>1, <2>5 DEF Deletes
<1>6. QED
  BY <1>1, <1>3, <1>4, <1>5

(* The steps that change the frames only.                                  *)
LEMMA ReadingStep ==
  ASSUME DeleteInv, NEW n \in Nodes, Reads(n),
         stack' \in Seq(FrameType), stack' # <<>>, stack'[1].node = Top,
         UNCHANGED <<tree, result, before, changes>>,
         changes = 0 /\ Plain /\ OnlyRemoved /\ Deletes
            => \A i \in 1..Len(stack') : FrameOK(tree, stack', i)
  PROVE  DeleteInv'
<1> USE DEF DeleteInv
<1>1. DeleteTypeOK'
  BY DEF DeleteTypeOK, Reads, At
<1>2. Attached(tree') /\ (changes' = 0 => OnlyRemoved')
  BY DEF OnlyRemoved, Removed
<1>3. ASSUME changes' = 0, Plain' PROVE Deletes'
  <2>1. changes = 0 /\ Plain /\ OnlyRemoved /\ Deletes
    BY <1>3 DEF Plain
  <2>2. QED
    BY <2>1 DEF Deletes
<1>4. QED
  BY <1>1, <1>2, <1>3 DEF Reads, At

LEMMA CurrentFrame ==
  ASSUME DeleteTypeOK, stack # <<>>
  PROVE  /\ Len(stack) \in 1..Len(stack) /\ Len(stack) \in Nat
         /\ Len(stack) \in Nat \ {0}
         /\ Current = stack[Len(stack)] /\ Current \in FrameType
         /\ \A i \in 1..Len(stack) : stack[i] \in FrameType
BY DEF DeleteTypeOK, Current

LEMMA FirstFrameStays ==
  ASSUME NEW s, NEW t, NEW l \in Nat \ {0}, s[1].node = Top, t[l].node = s[l].node,
         \A i \in 1..l : i # l => t[i] = s[i]
  PROVE  t[1].node = Top
<1>1. CASE l = 1
  BY <1>1
<1>2. CASE l # 1
  <2>1. 1 \in 1..l
    OBVIOUS
  <2>2. QED
    BY <1>2, <2>1
<1>3. QED
  BY <1>1, <1>2

(* opendir, and its failure: the frame of the call, on top of the others,  *)
(* becomes one of the same node.                                           *)
LEMMA OpeningStep ==
  ASSUME DeleteInv, stack # <<>>, NEW f \in FrameType, CurrentBecomes(f),
         f.node = Current.node, f.seen = Current.seen, f.file = Current.file,
         UNCHANGED <<tree, result, before>>, changes' \in Nat, changes' = 0 => changes = 0,
         changes' = 0 /\ Plain /\ OnlyRemoved /\ Deletes
            => f.at # "removing" /\ f.dir = f.node /\ Entries(tree, f.node) \subseteq f.due
  PROVE  DeleteInv'
<1> DEFINE L == Len(stack)
<1>1. DeleteTypeOK /\ stack \in Seq(FrameType) /\ stack[1].node = Top /\ result = "none"
  BY DEF DeleteInv, DeleteTypeOK
<1>2. L \in Nat \ {0} /\ L \in 1..L /\ Current = stack[L]
  BY <1>1, CurrentFrame
<1>3. stack' = [stack EXCEPT ![L] = f]
  BY DEF CurrentBecomes
<1>4. /\ stack' \in Seq(FrameType) /\ stack' # <<>> /\ Len(stack') = L
      /\ stack'[L] = f
      /\ \A i \in 1..L : i # L => stack'[i] = stack[i]
  BY <1>1, <1>3, LastFrame
<1>5. stack'[1].node = Top
  BY <1>1, <1>2, <1>4, FirstFrameStays
<1>6. DeleteTypeOK'
  BY <1>1, <1>4, <1>5 DEF DeleteTypeOK
<1>7. ASSUME changes' = 0, Plain' PROVE Deletes'
  <2>1. changes = 0 /\ Plain /\ OnlyRemoved /\ Deletes
    BY <1>7 DEF Plain, DeleteInv
  <2>2. ASSUME NEW i \in 1..L PROVE FrameOK(tree, stack', i)
    <3>1. FrameOK(tree, stack, i)
      BY <2>1 DEF Deletes
    <3>2. CASE i = L
      BY <1>2, <1>4, <1>7, <2>1, <3>1, <3>2 DEF FrameOK
    <3>3. CASE i # L
      <4>1. i < L /\ i + 1 \in 1..L /\ stack'[i] = stack[i]
        BY <1>2, <1>4, <3>3
      <4>2. stack'[i + 1].node = stack[i + 1].node
        BY <1>2, <1>4, <4>1
      <4>3. QED
        BY <1>4, <3>1, <4>1, <4>2 DEF FrameOK
    <3>4. QED
      BY <3>2, <3>3
  <2>3. QED
    BY <1>1, <1>4, <2>1, <2>2 DEF Deletes
<1>8. QED
  BY <1>1, <1>4, <1>6, <1>7 DEF DeleteInv, OnlyRemoved, Removed

LEMMA OpenDirectoryStep ==
  ASSUME DeleteInv, OpenDirectory \/ OpenDirectoryFails
  PROVE  DeleteInv'
<1>1. DeleteTypeOK /\ stack # <<>> /\ Current \in FrameType /\ Current.node \in Nodes
      /\ changes \in Nat
  <2>1. DeleteTypeOK /\ stack # <<>> /\ changes \in Nat
    BY DEF DeleteInv, DeleteTypeOK, OpenDirectory, OpenDirectoryFails, At
  <2>2. Current \in FrameType
    BY <2>1, CurrentFrame
  <2>3. QED
    BY <2>1, <2>2 DEF FrameType
<1>2. CASE OpenDirectory
  <2> DEFINE d == Dir(Current.node)
             f == [Current EXCEPT !.at = "reading", !.dir = d, !.due = Entries(tree, d)]
  <2>1. CurrentBecomes(f) /\ IsDir(Current.node) /\ UNCHANGED <<tree, result, before, changes>>
    BY <1>2 DEF OpenDirectory
  <2>2. d \in Nodes \cup {Elsewhere} /\ Entries(tree, d) \in SUBSET Nodes
    BY <1>1 DEF Dir, Entries
  <2>3. /\ f \in FrameType /\ f.node = Current.node /\ f.seen = Current.seen
        /\ f.file = Current.file /\ f.at = "reading" /\ f.dir = d /\ f.due = Entries(tree, d)
    <3> HIDE DEF d
    <3> QED
      BY <1>1, <2>2 DEF FrameType
  <2>4. Plain /\ OnlyRemoved => d = Current.node
    BY <1>1, <2>1, PlainKinds
  <2> HIDE DEF f, d
  <2>5. QED
    BY <1>1, <2>1, <2>3, <2>4, OpeningStep
<1>3. CASE OpenDirectoryFails
  <2> DEFINE f == [Current EXCEPT !.at = "removing"]
  <2>1. CurrentBecomes(f) /\ UNCHANGED <<tree, result, before>>
        /\ changes' = IF IsDir(Current.node) THEN changes + 1 ELSE changes
    BY <1>3 DEF OpenDirectoryFails
  <2>2. /\ f \in FrameType /\ f.node = Current.node /\ f.seen = Current.seen
        /\ f.file = Current.file
    BY <1>1 DEF FrameType
  <2>3. changes' \in Nat /\ (changes' = 0 => changes = 0 /\ ~IsDir(Current.node))
    BY <1>1, <2>1
  <2>4. ~(changes' = 0 /\ Deletes)
    <3> SUFFICES ASSUME changes' = 0, Deletes PROVE FALSE
      OBVIOUS
    <3>1. FrameOK(tree, stack, Len(stack)) /\ Current = stack[Len(stack)]
      BY <1>1, CurrentFrame DEF Deletes
    <3>2. QED
      BY <2>3, <3>1 DEF FrameOK, IsDir
  <2> HIDE DEF f
  <2>5. QED
    BY <1>1, <2>1, <2>2, <2>3, <2>4, OpeningStep
<1>4. QED
  BY <1>2, <1>3

LEMMA SkipEntryStep ==
  ASSUME DeleteInv, NEW n \in Nodes, SkipEntry(n)
  PROVE  DeleteInv'
<1> DEFINE f == SeenFrame(n)
<1>1. DeleteTypeOK /\ stack # <<>> /\ Reads(n) /\ stack' = Seen(n)
  BY DEF DeleteInv, SkipEntry, Reads, At
<1>2. stack' = [stack EXCEPT ![Len(stack)] = f] /\ f \in FrameType /\ f.node = Current.node
  BY <1>1, SeenFacts
<1>3. stack \in Seq(FrameType) /\ stack[1].node = Top
  BY <1>1 DEF DeleteTypeOK
<1> HIDE DEF f
<1>4. /\ stack' \in Seq(FrameType) /\ stack' # <<>> /\ Len(stack') = Len(stack)
      /\ stack'[Len(stack)] = f
      /\ \A i \in 1..Len(stack) : i # Len(stack) => stack'[i] = stack[i]
  BY <1>1, <1>2, <1>3, LastFrame
<1>5. stack'[1].node = Top
  <2>1. stack'[Len(stack)].node = stack[Len(stack)].node /\ Len(stack) \in Nat \ {0}
    BY <1>1, <1>2, <1>4, CurrentFrame
  <2>2. QED
    BY <1>3, <1>4, <2>1, FirstFrameStays
<1>6. ~(changes = 0 /\ Plain /\ OnlyRemoved)
  BY <1>1, PlainKinds DEF SkipEntry
<1>7. QED
  BY <1>1, <1>4, <1>5, <1>6, ReadingStep DEF SkipEntry

LEMMA FindFileStep ==
  ASSUME DeleteInv, NEW n \in Nodes, FindFile(n)
  PROVE  DeleteInv'
<1> DEFINE f == [SeenFrame(n) EXCEPT !.file = n]
           L == Len(stack)
<1>1. DeleteTypeOK /\ stack # <<>> /\ Reads(n) /\ stack' = [Seen(n) EXCEPT ![L].file = n]
  BY DEF DeleteInv, FindFile, Reads, At
<1>2. Seen(n) = [stack EXCEPT ![L] = SeenFrame(n)] /\ SeenFrame(n) \in FrameType
  BY <1>1, SeenFacts
<1>3. stack \in Seq(FrameType) /\ stack[1].node = Top
  BY <1>1 DEF DeleteTypeOK
<1>4. /\ Seen(n) \in Seq(FrameType) /\ Seen(n) # <<>> /\ Len(Seen(n)) = L
      /\ Seen(n)[L] = SeenFrame(n)
      /\ \A i \in 1..L : i # L => Seen(n)[i] = stack[i]
  BY <1>1, <1>2, <1>3, LastFrame
<1>5. /\ f \in FrameType /\ f.node = Current.node /\ f.dir = Current.dir /\ f.due = Current.due
      /\ f.seen = Current.seen \cup {n} /\ f.file = n /\ f.at = Current.at
  <2>1. f \in FrameType /\ f.file = n
    BY <1>2 DEF FrameType
  <2>2. f.node = SeenFrame(n).node /\ f.dir = SeenFrame(n).dir /\ f.due = SeenFrame(n).due
        /\ f.seen = SeenFrame(n).seen /\ f.at = SeenFrame(n).at
    BY <1>2 DEF FrameType
  <2>3. QED
    BY <1>1, <2>1, <2>2, SeenFacts
<1>6. stack' = [Seen(n) EXCEPT ![Len(Seen(n))] = f]
  BY <1>1, <1>4
<1> HIDE DEF f
<1>7. /\ stack' \in Seq(FrameType) /\ stack' # <<>> /\ Len(stack') = L
      /\ stack'[L] = f
      /\ \A i \in 1..L : i # L => stack'[i] = stack[i]
  BY <1>4, <1>5, <1>6, LastFrame
<1>8. stack'[1].node = Top
  <2>1. stack'[L].node = stack[L].node /\ L \in Nat \ {0}
    BY <1>1, <1>5, <1>7, CurrentFrame
  <2>2. QED
    BY <1>3, <1>7, <2>1, FirstFrameStays
<1>9. ASSUME changes = 0, Plain, OnlyRemoved, Deletes, NEW i \in 1..L
      PROVE  FrameOK(tree, stack', i)
  <2>1. FrameOK(tree, stack, i)
    BY <1>9 DEF Deletes
  <2>2. n \in Nodes /\ n \in Entries(tree, Current.dir) /\ tree[n].kind = "file" /\ tree[n].in = Current.dir
    BY DEF FindFile, Reads, At, Entries
  <2>3. CASE i = L
    <3>1. Current.file = Nowhere /\ Current = stack[L]
      BY <1>1, CurrentFrame DEF Reads, At
    <3>2. FrameOK(tree, stack, L) /\ ~(L < L) /\ stack'[L] = f /\ Len(stack') = L
      BY <1>1, <1>7, <2>1, <2>3, CurrentFrame
    <3>3. Current.dir = Current.node
      BY <3>1, <3>2 DEF FrameOK
    <3>4. FrameOK(tree, stack', L)
      <4>1. \A m \in Current.seen : m \notin Entries(tree, Current.node)
        BY <3>1, <3>2, PlacesAreApart DEF FrameOK, Entries
      <4>2. \A m \in stack'[L].seen \cap Entries(tree, stack'[L].node) : m = stack'[L].file
        BY <1>5, <3>2, <4>1
      <4>3. stack'[L].dir = stack'[L].node /\ tree[stack'[L].node].kind = "dir"
        BY <1>5, <3>1, <3>2, <3>3 DEF FrameOK
      <4>4. Entries(tree, stack'[L].node) \subseteq stack'[L].due
        BY <1>5, <3>1, <3>2 DEF FrameOK
      <4>5. tree[stack'[L].file].kind = "file" /\ tree[stack'[L].file].in = stack'[L].node
        BY <1>5, <2>2, <3>2, <3>3
      <4>7. stack'[L].at # "removing"
        BY <1>5, <3>1, <3>2 DEF FrameOK
      <4>6. QED
        BY <3>2, <4>2, <4>3, <4>4, <4>5, <4>7 DEF FrameOK
    <3>5. QED
      BY <2>3, <3>4
  <2>4. CASE i # L
    <3>1. i < L /\ i + 1 \in 1..L
      BY <1>1, <2>4, CurrentFrame
    <3>2. stack'[i] = stack[i] /\ stack'[i + 1].node = stack[i + 1].node
      BY <1>1, <1>5, <1>7, <2>4, <3>1, CurrentFrame
    <3>3. QED
      BY <1>7, <2>1, <3>1, <3>2 DEF FrameOK
  <2>5. QED
    BY <2>3, <2>4
<1>10. QED
  BY <1>1, <1>7, <1>8, <1>9, ReadingStep DEF FindFile

LEMMA EnterStep ==
  ASSUME DeleteInv, NEW n \in Nodes, Enter(n)
  PROVE  DeleteInv'
<1> DEFINE f == SeenFrame(n)
           L == Len(stack)
           g == Frame(n)
<1>1. DeleteTypeOK /\ stack # <<>> /\ Reads(n) /\ stack' = Seen(n) \o <<g>>
  BY DEF DeleteInv, Enter, Reads, At
<1>2. /\ Seen(n) = [stack EXCEPT ![L] = f] /\ f \in FrameType
      /\ f.node = Current.node /\ f.dir = Current.dir /\ f.due = Current.due
      /\ f.seen = Current.seen \cup {n} /\ f.file = Current.file /\ f.at = Current.at
  BY <1>1, SeenFacts
<1>3. stack \in Seq(FrameType) /\ stack[1].node = Top
  BY <1>1 DEF DeleteTypeOK
<1>4. g \in FrameType
  BY <1>1, FrameTypes DEF DeleteTypeOK
<1>5. /\ g.node = n /\ g.dir = n /\ g.due = Nodes /\ g.seen = {}
      /\ g.file = Nowhere /\ g.at = "opening"
  BY DEF Frame
<1> HIDE DEF f, g
<1>6. /\ Seen(n) \in Seq(FrameType) /\ Seen(n) # <<>> /\ Len(Seen(n)) = L
      /\ Seen(n)[L] = f
      /\ \A i \in 1..L : i # L => Seen(n)[i] = stack[i]
  BY <1>1, <1>2, <1>3, LastFrame
<1>7. /\ stack' \in Seq(FrameType) /\ stack' # <<>> /\ Len(stack') = L + 1
      /\ stack'[L + 1] = g
      /\ \A i \in 1..L : stack'[i] = Seen(n)[i]
  <2> DEFINE s == Seen(n)
  <2>1. s \in Seq(FrameType) /\ Len(s) = L
    BY <1>6
  <2>2. stack' = s \o <<g>>
    BY <1>1
  <2> HIDE DEF s
  <2>3. /\ stack' \in Seq(FrameType) /\ stack' # <<>> /\ Len(stack') = Len(s) + 1
        /\ stack'[Len(s) + 1] = g
        /\ \A i \in 1..Len(s) : stack'[i] = s[i]
    BY ONLY <1>4, <2>1, <2>2, PushedFrame
  <2>4. QED
    BY <2>1, <2>3 DEF s
<1>8. L \in Nat /\ L \in 1..L /\ Current = stack[L]
  BY <1>1, CurrentFrame
<1>9. stack'[1].node = Top
  <2>1. stack'[L].node = stack[L].node /\ L \in Nat \ {0}
    BY <1>1, <1>2, <1>6, <1>7, CurrentFrame
  <2>2. \A i \in 1..L : i # L => stack'[i] = stack[i]
    BY <1>6, <1>7
  <2>3. QED
    BY <1>3, <2>1, <2>2, FirstFrameStays
<1>10. ASSUME changes = 0, Plain, OnlyRemoved, Deletes, NEW i \in 1..(L + 1)
       PROVE  FrameOK(tree, stack', i)
  <2>1. tree[n].kind = "dir" /\ Dir(n) = n
    BY <1>1, <1>10, PlainKinds DEF Enter
  <2>2. n \in Entries(tree, Current.dir) /\ tree[n].in = Current.dir /\ Current.file = Nowhere
    BY DEF Enter, Reads, At, Entries
  <2>3. CASE i = L + 1
    BY <1>5, <1>7, <1>8, <2>1, <2>3 DEF FrameOK, Entries
  <2>4. CASE i = L
    <3>1. FrameOK(tree, stack, L)
      BY <1>8, <1>10 DEF Deletes
    <3>2. stack'[L] = f /\ stack'[L + 1].node = n
      BY <1>5, <1>6, <1>7, <1>8
    <3>3. QED
      BY <1>2, <1>7, <1>8, <2>2, <2>4, <3>1, <3>2 DEF FrameOK
  <2>5. CASE i < L
    <3>1. i \in 1..L /\ i + 1 \in 1..L
      BY <1>8, <2>5
    <3>2. FrameOK(tree, stack, i)
      BY <1>10, <3>1 DEF Deletes
    <3>3. stack'[i] = stack[i]
      BY <1>6, <1>7, <2>5, <3>1
    <3>4. stack'[i + 1].node = stack[i + 1].node
      BY <1>2, <1>6, <1>7, <1>8, <3>1
    <3>5. QED
      BY <1>7, <1>8, <2>5, <3>2, <3>3, <3>4 DEF FrameOK
  <2>6. QED
    BY <1>8, <2>3, <2>4, <2>5
<1>11. QED
  BY <1>1, <1>7, <1>9, <1>10, ReadingStep DEF Enter

(* What a step that removes n does to the tree.                            *)
LEMMA GoneStep ==
  ASSUME DeleteInv, NEW n \in Nodes, tree' = Gone(n), UNCHANGED <<before, changes>>,
         \A m \in Nodes : tree[m].kind # "none" => tree[m].in # n,
         tree[n].kind \in {"file", "dir"}
  PROVE  /\ tree' \in [Nodes -> NodeType]
         /\ Attached(tree')
         /\ changes' = 0 => OnlyRemoved'
         /\ tree'[n].kind = "none"
         /\ \A m \in Nodes \ {n} : tree'[m] = tree[m]
<1>1. tree \in [Nodes -> NodeType]
  BY DEF DeleteInv, DeleteTypeOK
<1>2. /\ tree' \in [Nodes -> NodeType] /\ tree'[n].kind = "none"
      /\ \A m \in Nodes \ {n} : tree'[m] = tree[m]
  BY <1>1, GoneFacts
<1>3. Attached(tree')
  BY <1>1, GoneStaysAttached DEF DeleteInv
<1>4. ASSUME changes' = 0 PROVE OnlyRemoved'
  <2>1. OnlyRemoved
    BY <1>4 DEF DeleteInv
  <2>2. before[n].kind \in {"file", "dir"}
    BY <2>1 DEF OnlyRemoved, Removed
  <2>3. QED
    BY <1>2, <2>1, <2>2 DEF OnlyRemoved, Removed
<1>5. QED
  BY <1>2, <1>3, <1>4

LEMMA UnlinkStep ==
  ASSUME DeleteInv, UnlinkEntry
  PROVE  DeleteInv'
<1> DEFINE L == Len(stack)
           n == Current.file
           f == [Current EXCEPT !.file = Nowhere]
<1>1. /\ DeleteTypeOK /\ stack # <<>> /\ n # Nowhere /\ tree[n].kind = "file"
      /\ tree[n].in = Current.dir /\ result = "none"
  BY DEF DeleteInv, DeleteTypeOK, UnlinkEntry
<1>2. L \in Nat \ {0} /\ L \in 1..L /\ Current = stack[L] /\ Current \in FrameType
  BY <1>1, CurrentFrame
<1>3. n \in Nodes
  BY <1>1, <1>2 DEF FrameType
<1>4. stack \in Seq(FrameType) /\ stack[1].node = Top
  BY <1>1 DEF DeleteTypeOK
<1>5. /\ f \in FrameType /\ f.node = Current.node /\ f.dir = Current.dir /\ f.due = Current.due
      /\ f.seen = Current.seen /\ f.file = Nowhere /\ f.at = Current.at
  BY <1>2 DEF FrameType
<1>6. stack' = [stack EXCEPT ![L] = f]
  BY DEF UnlinkEntry, Current
<1> HIDE DEF f
<1>7. /\ stack' \in Seq(FrameType) /\ stack' # <<>> /\ Len(stack') = L
      /\ stack'[L] = f
      /\ \A i \in 1..L : i # L => stack'[i] = stack[i]
  BY <1>1, <1>4, <1>5, <1>6, LastFrame
<1>8. stack'[1].node = Top
  <2>1. stack'[L].node = stack[L].node
    BY <1>2, <1>5, <1>7
  <2>2. QED
    BY <1>2, <1>4, <1>7, <2>1, FirstFrameStays
<1>9. tree' = Gone(n) /\ UNCHANGED <<result, before, changes>>
  BY DEF UnlinkEntry
<1>10. \A m \in Nodes : tree[m].kind # "none" => tree[m].in # n
  BY <1>1, <1>3, FilesHaveNoEntries DEF DeleteInv
<1>11. /\ tree' \in [Nodes -> NodeType] /\ Attached(tree') /\ (changes' = 0 => OnlyRemoved')
       /\ tree'[n].kind = "none"
       /\ \A m \in Nodes \ {n} : tree'[m] = tree[m]
  BY <1>1, <1>3, <1>9, <1>10, GoneStep
<1> HIDE DEF n
<1>12. DeleteTypeOK'
  BY <1>1, <1>7, <1>8, <1>9, <1>11 DEF DeleteTypeOK
<1>13. ASSUME changes' = 0, Plain' PROVE Deletes'
  <2>1. changes = 0 /\ Plain /\ OnlyRemoved /\ Deletes
    BY <1>9, <1>13 DEF Plain, DeleteInv
  <2>2. \A m \in Nodes : Entries(tree', m) = Entries(tree, m) \ {n}
    BY <1>3, <1>11 DEF Entries
  <2>3. ASSUME NEW i \in 1..L PROVE FrameOK(tree', stack', i)
    <3>1. FrameOK(tree, stack, i) /\ stack[i] \in FrameType
      BY <1>1, <2>1, CurrentFrame DEF Deletes
    <3>2. stack[i].node \in Nodes \ {n} /\ tree'[stack[i].node].kind = "dir"
      BY <1>1, <1>11, <3>1 DEF FrameOK, FrameType
    <3>3. CASE i = L
      <4>1. stack'[i] = f /\ ~(i < Len(stack'))
        BY <1>2, <1>7, <3>3
      <4>2. \A m \in f.seen \cap Entries(tree', f.node) : FALSE
        BY <1>2, <1>5, <2>2, <3>1, <3>2, <3>3 DEF FrameOK, n
      <4>3. QED
        BY <1>2, <1>5, <2>2, <3>1, <3>2, <3>3, <4>1, <4>2 DEF FrameOK
    <3>4. CASE i # L
      <4>1. i < L /\ i + 1 \in 1..L
        BY <1>2, <3>4
      <4>2. stack'[i] = stack[i] /\ stack'[i + 1].node = stack[i + 1].node
        BY <1>2, <1>5, <1>7, <3>4, <4>1
      <4>3. stack[i].file = Nowhere /\ tree[stack[i + 1].node].in = stack[i].node
        BY <3>1, <4>1 DEF FrameOK
      <4>4. stack[i + 1].node \in Nodes \ {n}
        <5>1. FrameOK(tree, stack, i + 1) /\ stack[i + 1] \in FrameType
          BY <1>1, <2>1, <4>1, CurrentFrame DEF Deletes
        <5>2. QED
          BY <1>1, <5>1 DEF FrameOK, FrameType
      <4>5. tree'[stack[i + 1].node].in = stack[i].node
        BY <1>11, <4>3, <4>4
      <4>6. QED
        BY <1>7, <2>2, <3>1, <3>2, <4>1, <4>2, <4>3, <4>5 DEF FrameOK
    <3>5. QED
      BY <3>3, <3>4
  <2>4. before[n].in # Elsewhere
    <3>1. tree[n] = before[n]
      BY <1>1, <1>3, <2>1 DEF OnlyRemoved, Removed, n
    <3>2. Current.dir \in Nodes
      BY <1>2, <2>1 DEF Deletes, FrameOK, FrameType
    <3>3. QED
      BY <1>1, <3>1, <3>2, PlacesAreApart DEF n
  <2>5. \A m \in Nodes : tree'[m] # before'[m] => before'[m].in # Elsewhere
    BY <1>9, <1>11, <2>1, <2>4 DEF Deletes
  <2>6. QED
    BY <1>1, <1>7, <1>9, <2>3, <2>5 DEF Deletes
<1>14. QED
  BY <1>1, <1>7, <1>9, <1>11, <1>12, <1>13 DEF DeleteInv

LEMMA RemoveDirectoryStep ==
  ASSUME DeleteInv, RemoveDirectory
  PROVE  DeleteInv'
<1> DEFINE L == Len(stack)
           n == Current.node
<1>1. /\ DeleteTypeOK /\ stack # <<>> /\ tree[n].kind = "dir" /\ Entries(tree, n) = {}
      /\ result = "none"
  BY DEF DeleteInv, DeleteTypeOK, RemoveDirectory, AtEnd, At, Removable
<1>2. L \in Nat \ {0} /\ L \in 1..L /\ Current = stack[L] /\ Current \in FrameType
  BY <1>1, CurrentFrame
<1>3. n \in Nodes
  BY <1>2 DEF FrameType
<1>4. stack \in Seq(FrameType) /\ stack[1].node = Top
  BY <1>1 DEF DeleteTypeOK
<1>5. /\ stack' = Front(stack) /\ tree' = Gone(n) /\ UNCHANGED <<before, changes>>
      /\ result' = IF L = 1 THEN "true" ELSE "none"
  BY DEF RemoveDirectory
<1>6. /\ stack' \in Seq(FrameType) /\ Len(stack') = L - 1
      /\ \A i \in 1..(L - 1) : stack'[i] = stack[i]
      /\ L = 1 => stack' = <<>>
  BY <1>1, <1>4, <1>5, FrontFacts
<1>7. /\ tree' \in [Nodes -> NodeType] /\ Attached(tree') /\ (changes' = 0 => OnlyRemoved')
      /\ tree'[n].kind = "none"
      /\ \A m \in Nodes \ {n} : tree'[m] = tree[m]
  <2>1. \A m \in Nodes : tree[m].kind # "none" => tree[m].in # n
    BY <1>1 DEF Entries
  <2>2. QED
    BY <1>1, <1>3, <1>5, <2>1, GoneStep
<1> HIDE DEF n
<1>8. L # 1 => stack' # <<>> /\ stack'[1].node = Top
  BY <1>2, <1>4, <1>6
<1>9. DeleteTypeOK'
  BY <1>1, <1>5, <1>6, <1>7, <1>8 DEF DeleteTypeOK
<1>10. result' = "true" => tree'[Top].kind = "none"
  BY <1>2, <1>4, <1>5, <1>7 DEF n
<1>11. ~(stack' = <<>> /\ result' = "none")
  BY <1>5, <1>8
<1>12. ASSUME changes' = 0, Plain' PROVE Deletes'
  <2>1. changes = 0 /\ Plain /\ OnlyRemoved /\ Deletes
    BY <1>5, <1>12 DEF Plain, DeleteInv
  <2>2. \A m \in Nodes : Entries(tree', m) = Entries(tree, m) \ {n}
    BY <1>3, <1>7 DEF Entries
  <2>3. ASSUME NEW i \in 1..L PROVE FrameOK(tree, stack, i) /\ stack[i] \in FrameType
    BY <1>1, <2>1, CurrentFrame DEF Deletes
  <2>4. ASSUME NEW i \in 1..(L - 1)
        PROVE  /\ i \in 1..L /\ i + 1 \in 1..L /\ i < L
               /\ stack[i].node \in Nodes \ {n}
    <3>1. i \in 1..L /\ i + 1 \in 1..L /\ i < L
      BY <1>2
    <3>2. /\ FrameOK(tree, stack, i) /\ FrameOK(tree, stack, i + 1)
          /\ stack[i] \in FrameType /\ stack[i + 1] \in FrameType
      BY <2>3, <3>1
    <3>3. tree[stack[i + 1].node].in = stack[i].node /\ tree[stack[i + 1].node].kind = "dir"
      BY <3>1, <3>2 DEF FrameOK
    <3>4. stack[i + 1].node \in Entries(tree, stack[i].node)
      BY <3>2, <3>3 DEF Entries, FrameType
    <3>5. QED
      BY <1>1, <3>1, <3>2, <3>4 DEF FrameType
  <2>5. ASSUME NEW i \in 1..(L - 1) PROVE FrameOK(tree', stack', i)
    <3>1. /\ i \in 1..L /\ i + 1 \in 1..L /\ i < L
          /\ stack[i].node \in Nodes \ {n}
      BY <2>4
    <3>2. FrameOK(tree, stack, i) /\ stack'[i] = stack[i]
      BY <1>6, <2>3, <3>1
    <3>3. tree'[stack[i].node].kind = "dir"
      BY <1>7, <3>1, <3>2 DEF FrameOK
    <3>4. stack[i].file = Nowhere /\ tree[stack[i + 1].node].in = stack[i].node
      BY <3>1, <3>2 DEF FrameOK
    <3>5. CASE i = L - 1
      <4>1. stack[i + 1].node = n /\ ~(i < Len(stack'))
        BY <1>2, <1>6, <3>5 DEF n
      <4>2. QED
        BY <2>2, <3>1, <3>2, <3>3, <3>4, <4>1, PlacesAreApart DEF FrameOK, Entries
    <3>6. CASE i # L - 1
      <4>1. i + 1 \in 1..(L - 1)
        BY <1>2, <3>1, <3>6
      <4>2. stack'[i + 1] = stack[i + 1] /\ stack[i + 1].node \in Nodes \ {n} /\ i < Len(stack')
        BY <1>2, <1>6, <2>4, <4>1
      <4>3. tree'[stack[i + 1].node].in = stack[i].node
        BY <1>7, <3>4, <4>2
      <4>4. QED
        BY <2>2, <3>1, <3>2, <3>3, <3>4, <4>2, <4>3 DEF FrameOK
    <3>7. QED
      BY <3>5, <3>6
  <2>6. before[n].in # Elsewhere
    <3>1. tree[n] = before[n]
      BY <1>1, <1>3, <2>1 DEF OnlyRemoved, Removed, n
    <3>2. before \in Trees
      BY <1>1 DEF DeleteTypeOK
    <3>3. CASE n = Top
      BY <3>2, <3>3, TreeFacts, PlacesAreApart
    <3>4. CASE n # Top
      BY <1>1, <1>3, <3>1, <3>2, <3>4, TreeFacts DEF n
    <3>5. QED
      BY <3>3, <3>4
  <2>7. \A m \in Nodes : tree'[m] # before'[m] => before'[m].in # Elsewhere
    BY <1>5, <1>7, <2>1, <2>6 DEF Deletes
  <2>8. QED
    BY <1>5, <1>6, <2>5, <2>7 DEF Deletes
<1>13. QED
  BY <1>7, <1>9, <1>10, <1>11, <1>12 DEF DeleteInv

(* The steps that give up are not taken in a tree without links that       *)
(* nobody else changes: a file that was found is still there, and at the   *)
(* end of a directory there is nothing left in it.                         *)
LEMMA GivesUp ==
  ASSUME DeleteInv, UnlinkFails \/ RemoveFails
  PROVE  ~(changes = 0 /\ Plain)
<1> SUFFICES ASSUME changes = 0, Plain PROVE FALSE
  OBVIOUS
<1> DEFINE L == Len(stack)
<1>1. DeleteTypeOK /\ OnlyRemoved /\ Deletes
  BY DEF DeleteInv
<1>2. ASSUME stack # <<>>
      PROVE  /\ Current \in FrameType /\ Current.dir = Current.node
             /\ tree[Current.node].kind = "dir" /\ Current.at # "removing"
             /\ Entries(tree, Current.node) \subseteq Current.due
             /\ \A n \in Current.seen \cap Entries(tree, Current.node) : n = Current.file
             /\ Current.file # Nowhere => tree[Current.file].kind = "file"
                                          /\ tree[Current.file].in = Current.node
  <2>1. L \in 1..L /\ L \in Nat /\ Current = stack[L] /\ Current \in FrameType
    BY <1>1, <1>2, CurrentFrame
  <2>2. FrameOK(tree, stack, L) /\ ~(L < L)
    BY <1>1, <2>1 DEF Deletes
  <2>3. QED
    BY <2>1, <2>2 DEF FrameOK
<1>3. CASE UnlinkFails
  BY <1>2, <1>3 DEF UnlinkFails
<1>4. CASE RemoveFails
  <2>1. stack # <<>> /\ Current.file = Nowhere
        /\ Entries(tree, Current.node) \subseteq Current.seen
    BY <1>2, <1>4 DEF RemoveFails, AtEnd, At
  <2>2. Entries(tree, Current.node) = {}
    BY <1>2, <2>1, PlacesAreApart DEF Entries
  <2>3. QED
    BY <1>2, <1>4, <2>1, <2>2 DEF RemoveFails, Removable
<1>5. QED
  BY <1>3, <1>4

LEMMA GivesUpStep ==
  ASSUME DeleteInv, UnlinkFails \/ RemoveFails
  PROVE  DeleteInv'
<1>1. /\ stack' = <<>> /\ result' = "false" /\ UNCHANGED <<tree, before, changes>>
  BY DEF UnlinkFails, RemoveFails
<1>2. ~(changes = 0 /\ Plain)
  BY GivesUp
<1>3. DeleteTypeOK'
  BY <1>1 DEF DeleteInv, DeleteTypeOK
<1>4. QED
  BY <1>1, <1>2, <1>3 DEF DeleteInv, OnlyRemoved, Removed, Plain

(* The other program: what depends on nobody else is void from now on.     *)
LEMMA OtherStep ==
  ASSUME DeleteInv, NEW n \in Nodes,
         Removes(n) \/ \E d \in Nodes \cup {Elsewhere} : Adds(n, d)
  PROVE  DeleteInv'
<1> USE DEF DeleteInv
<1>1. /\ changes' = changes + 1 /\ changes' \in Nat /\ changes' # 0
      /\ UNCHANGED <<stack, result, before>> /\ result = "none"
  BY DEF DeleteTypeOK, Removes, Adds
<1>2. tree \in [Nodes -> NodeType]
  BY DEF DeleteTypeOK
<1>3. CASE Removes(n)
  <2>1. tree' = Gone(n) /\ \A m \in Nodes : tree[m].kind # "none" => tree[m].in # n
    BY <1>3 DEF Removes, Entries
  <2>2. tree' \in [Nodes -> NodeType] /\ Attached(tree')
    BY <1>2, <2>1, GoneFacts, GoneStaysAttached
  <2>3. QED
    BY <1>1, <2>2 DEF DeleteTypeOK
<1>4. ASSUME NEW d \in Nodes \cup {Elsewhere}, Adds(n, d) PROVE DeleteInv'
  <2>1. /\ tree' = [tree EXCEPT ![n] = [kind |-> "file", in |-> d]]
        /\ tree[n].kind = "none" /\ (d \in Nodes => tree[d].kind = "dir")
    BY <1>4 DEF Adds
  <2>2. [kind |-> "file", in |-> d] \in NodeType
    BY DEF NodeType, Kinds
  <2>3. tree' \in [Nodes -> NodeType]
    BY <1>2, <2>1, <2>2
  <2>4. \A m \in Nodes : tree[m].kind # "none" => tree[m].in # n
    BY <2>1, FilesHaveNoEntries
  <2>5. Attached(tree')
    <3>1. ASSUME NEW m \in Nodes, tree'[m].kind # "none", tree'[m].in \in Nodes
          PROVE  tree'[m].in # n /\ tree[tree'[m].in].kind = "dir"
      <4>1. CASE m = n
        BY <1>2, <2>1, <3>1, <4>1
      <4>2. CASE m # n
        BY <1>2, <2>1, <2>4, <3>1, <4>2 DEF Attached
      <4>3. QED
        BY <4>1, <4>2
    <3>2. QED
      BY <1>2, <2>1, <3>1 DEF Attached
  <2>6. QED
    BY <1>1, <2>3, <2>5 DEF DeleteTypeOK
<1>5. QED
  BY <1>3, <1>4

LEMMA DeleteInvKept == DeleteInv /\ UNCHANGED deleteVars => DeleteInv'
BY DEF DeleteInv, DeleteTypeOK, Attached, OnlyRemoved, Removed, Deletes, FrameOK, Entries, Plain, deleteVars

(* avDirectoryDelete answers true only for a directory that is gone with   *)
(* all there was in it.  If nobody else changes the directory and opendir  *)
(* is not refused, a tree of any number of files and directories, on the   *)
(* two levels Trees has, is deleted, and nothing else; with a link in it   *)
(* the call answers false.                                                 *)
(* An entry another program adds is never in a directory that is gone.     *)
THEOREM DeletionSound == Spec => []DeleteSound
<1>1. Init => DeleteInv
  BY DeleteInvInit DEF Init
<1>2. DeleteInv /\ [Next]_platformVars => DeleteInv'
  BY DeleteInvKept, DeleteTopStep, RemoveDirectoryStep, GivesUpStep, UnlinkStep, SkipEntryStep,
     EnterStep, FindFileStep, OtherStep, OpenDirectoryStep
     DEF Next, platformVars, DeleteNext, Deleting
<1>3. DeleteInv => DeleteSound
  <2> SUFFICES ASSUME DeleteInv PROVE DeleteSound
    OBVIOUS
  <2>1. result = "true" => tree[Top].kind = "none"
    BY DEF DeleteInv
  <2>2. \A n \in Nodes : tree[n].kind # "none" /\ tree[n].in \in Nodes
                            => tree[tree[n].in].kind = "dir"
    BY DEF DeleteInv, Attached
  <2>3. ASSUME changes = 0, result # "none" PROVE result = "true" <=> Plain
    BY <2>1, <2>3, PlainWhenGone DEF DeleteInv, DeleteTypeOK, Deletes
  <2>4. ASSUME changes = 0, Plain PROVE Entries(tree, Elsewhere) = Entries(before, Elsewhere)
    <3>1. \A n \in Nodes : tree[n] # before[n] => before[n].in # Elsewhere /\ tree[n].kind = "none"
      BY <2>4 DEF DeleteInv, Deletes, OnlyRemoved, Removed
    <3>2. QED
      BY <3>1 DEF Entries
  <2>5. QED
    BY <2>1, <2>2, <2>3, <2>4 DEF DeleteSound
<1>4. QED
  BY <1>1, <1>2, <1>3, PTL DEF Spec

================================================================================
