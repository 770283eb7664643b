-------------------------------- MODULE Processes --------------------------------
(***************************************************************************)
(* src/processes/avPipe.c and avProcess.c, POSIX: a program with one pipe  *)
(* that starts children, with the pipe's ends as their input or output,    *)
(* and waits for them.  pipe, fork, dup2, close, execvp and waitpid are    *)
(* the operating system's: a new descriptor is the lowest number that is   *)
(* free, a child starts with a copy of the descriptors, and a pipe ends    *)
(* for its readers when no process has its write end open.                 *)
(***************************************************************************)
EXTENDS Integers, FiniteSets, FiniteSetsExt

CONSTANTS Children,  (* the AvProcess handles, and the processes they start *)
          Parent, Nobody,
          MaxFd,     (* bound: the highest descriptor number                *)
          Leftovers, (* what may be in memory that nobody has initialised   *)
          Capacity,  (* how much fits in a pipe                             *)
          MaxOutput  (* bound: how much a child writes                      *)

ASSUME ProcessesAreApart == Parent \notin Children /\ Nobody \notin Children \cup {-1} /\ -1 \notin Children
ASSUME ChildrenAreNoStatus == {"none", "discarded", "error"} \cap Children = {}
ASSUME HasStandardStreams == MaxFd \in Nat \ {0}
ASSUME LeftoversAreNumbers == Leftovers \subseteq Int

VARIABLES fds,       (* fds[p][n]: what descriptor n of process p is        *)
          pipe,      (* the AvPipe: its two numbers, whether it is in use,  *)
                     (* and whether pipe() succeeded                        *)
          buffered,  (* how much is in the pipe                             *)
          child,     (* child[c]: the process that was started as c         *)
          handle,    (* handle[c]: the AvProcess_T                          *)
          waitingFor,(* whom the parent polls for in avProcessWaitExit      *)
          consumed   (* the ends that a consume call has closed             *)

processVars == <<fds, pipe, buffered, child, handle, waitingFor, consumed>>

Fds == 0..MaxFd
Processes == Children \cup {Parent}
Std == 0..1  (* STDIN_FILENO, STDOUT_FILENO *)
PipeEnds == {"read", "write"}

FreeFds(p) == {n \in Fds : fds[p][n] = "closed"}
Opened(table, n, what) == [table EXCEPT ![n] = what]
Closed(table, ns) == [n \in Fds |-> IF n \in ns THEN "closed" ELSE table[n]]
HasOpen(what) == \E p \in Processes, n \in Fds : fds[p][n] = what
(* The ends that the program made and has not closed.                      *)
Owned == IF pipe.used = "yes" /\ pipe.made THEN PipeEnds \ consumed ELSE {}

NotStarted == [at |-> "none", reads |-> FALSE, writes |-> FALSE, left |-> 0, heldWriteEnd |-> FALSE]

ProcessInit ==
    /\ fds = [p \in Processes |-> [n \in Fds |-> IF p = Parent /\ n \in Std THEN "tty" ELSE "closed"]]
    /\ pipe = [read |-> 0, write |-> 0, used |-> "no", made |-> FALSE]
    /\ buffered = 0
    /\ child = [c \in Children |-> NotStarted]
    /\ handle = [c \in Children |-> [pid |-> Nobody, status |-> "none"]]
    /\ waitingFor = Nobody
    /\ consumed = {}

Calls == waitingFor = Nobody

--------------------------------------------------------------------------------
(* avPipeCreate *)
PipeCreate ==
    LET r == Min(FreeFds(Parent))
        w == Min(FreeFds(Parent) \ {r})
    IN
    /\ Calls
    /\ pipe.used = "no"
    /\ Cardinality(FreeFds(Parent)) > 1
    /\ pipe' = [read |-> r, write |-> w, used |-> "yes", made |-> TRUE]
    /\ fds' = [fds EXCEPT ![Parent] = Opened(Opened(@, r, "read"), w, "write")]
    /\ UNCHANGED <<buffered, child, handle, waitingFor, consumed>>

(* pipe() fails, which nobody looks at: the numbers are what was on the    *)
(* stack, and the client can't tell.                                       *)
PipeCreateFails ==
    /\ Calls
    /\ pipe.used = "no"
    /\ \E r, w \in Leftovers : pipe' = [read |-> r, write |-> w, used |-> "yes", made |-> FALSE]
    /\ UNCHANGED <<fds, buffered, child, handle, waitingFor, consumed>>

(* Something else in the program opens a file.                             *)
OpenFile ==
    /\ Calls
    /\ FreeFds(Parent) # {}
    /\ \A n \in Fds : fds[Parent][n] # "file"
    /\ fds' = [fds EXCEPT ![Parent] = Opened(@, Min(FreeFds(Parent)), "file")]
    /\ UNCHANGED <<pipe, buffered, child, handle, waitingFor, consumed>>

(* close() in the parent; the AvPipe keeps the numbers.                    *)
Closes(ns) ==
    /\ fds' = [fds EXCEPT ![Parent] = Closed(@, ns)]
    /\ UNCHANGED <<buffered, child, handle, waitingFor>>

(* avPipeConsumeWriteChannel, avPipeConsumeReadChannel, once each.         *)
Usable(e) == pipe.used = "yes" /\ e \notin consumed

(* Mutation: the indices of the two ends are swapped. *)
ConsumeOtherChannel ==
    /\ Calls
    /\ Usable("write")
    /\ Closes({pipe.read})
    /\ consumed' = consumed \cup {"write"}
    /\ UNCHANGED pipe

ConsumeWriteChannel ==
    /\ Calls
    /\ Usable("write")
    /\ Closes({pipe.write})
    /\ consumed' = consumed \cup {"write"}
    /\ UNCHANGED pipe

ConsumeReadChannel ==
    /\ Calls
    /\ Usable("read")
    /\ Closes({pipe.read})
    /\ consumed' = consumed \cup {"read"}
    /\ UNCHANGED pipe

(* avPipeDestroy closes both numbers, whatever they are by now.            *)
PipeDestroy ==
    /\ Calls
    /\ pipe.used = "yes"
    /\ Closes({pipe.read, pipe.write})
    /\ pipe' = [pipe EXCEPT !.used = "destroyed"]
    /\ UNCHANGED consumed

--------------------------------------------------------------------------------
(* executeProcess up to fork.  Its result is kept in an unsigned type, so  *)
(* that a failed fork is taken for a child with the number -1.  The client *)
(* passes only ends that it has not consumed.                              *)
Start(c, input, output) ==
    /\ Calls
    /\ child[c].at = "none"
    /\ handle[c].pid = Nobody /\ handle[c].status = "none"
    /\ input => Usable("read")
    /\ output => Usable("write")
    /\ fds' = [fds EXCEPT ![c] = fds[Parent]]
    /\ \E n \in IF output THEN 1..MaxOutput ELSE {0} :
          child' = [child EXCEPT ![c] = [at |-> "forked", reads |-> input, writes |-> output, left |-> n,
                                         heldWriteEnd |-> \E d \in Fds : fds[Parent][d] = "write"]]
    /\ handle' = [handle EXCEPT ![c].pid = c]
    /\ UNCHANGED <<pipe, buffered, waitingFor, consumed>>

StartFails(c) ==
    /\ Calls
    /\ child[c].at = "none"
    /\ handle[c].pid = Nobody /\ handle[c].status = "none"
    /\ handle' = [handle EXCEPT ![c].pid = -1]
    /\ UNCHANGED <<fds, pipe, buffered, child, waitingFor, consumed>>

(* The child's side: for each redirection close, dup2, close, where dup2   *)
(* of a number that is not open does nothing; then execvp.  No other       *)
(* descriptor is closed, so the child keeps the other end.                 *)
NumberIs(table, n) == IF n \in Fds THEN table[n] ELSE "closed"
Redirected(table, std, n) ==
    LET freed == Closed(table, {std}) IN Closed(Opened(freed, std, NumberIs(freed, n)), {n})
Redirect(c) ==
    LET Output(table) == IF child[c].writes THEN Redirected(table, 1, pipe.write) ELSE table
        Input(table) == IF child[c].reads THEN Redirected(table, 0, pipe.read) ELSE table
    IN
    /\ child[c].at = "forked"
    /\ fds' = [fds EXCEPT ![c] = Input(Output(@))]
    /\ child' = [child EXCEPT ![c].at = "running"]
    /\ UNCHANGED <<pipe, buffered, handle, waitingFor, consumed>>

(* A process that ends closes what it has open and waits to be reaped.     *)
Ends(c) ==
    /\ child' = [child EXCEPT ![c] = [NotStarted EXCEPT !.at = "exited"]]
    /\ fds' = [fds EXCEPT ![c] = [n \in Fds |-> "closed"]]
    /\ UNCHANGED <<pipe, handle, waitingFor, consumed>>

(* execvp fails: exit(-1).                                                 *)
ExecFails(c) == child[c].at = "forked" /\ Ends(c) /\ UNCHANGED buffered

(* The program that was started: it writes to the pipe what it has left,   *)
(* reads the pipe to its end, and exits.                                   *)
ChildWrites(c) ==
    /\ child[c].at = "running" /\ fds[c][1] = "write" /\ child[c].left > 0
    /\ HasOpen("read") /\ buffered < Capacity
    /\ buffered' = buffered + 1
    /\ child' = [child EXCEPT ![c].left = @ - 1]
    /\ UNCHANGED <<fds, pipe, handle, waitingFor, consumed>>

ChildReads(c) ==
    /\ child[c].at = "running" /\ fds[c][0] = "read"
    /\ buffered > 0
    /\ buffered' = buffered - 1
    /\ UNCHANGED <<fds, pipe, child, handle, waitingFor, consumed>>

ChildExits(c) ==
    /\ child[c].at = "running"
    /\ fds[c][0] = "read" => buffered = 0 /\ ~HasOpen("write")
    /\ fds[c][1] = "write" /\ child[c].left > 0 => ~HasOpen("read")
    /\ Ends(c)
    /\ UNCHANGED buffered

--------------------------------------------------------------------------------
(* avProcessWaitExit, to which avProcessRun comes down after avProcessStart. *)
WaitExit(c) ==
    /\ Calls
    /\ handle[c].pid # Nobody /\ handle[c].status = "none"
    /\ waitingFor' = c
    /\ UNCHANGED <<fds, pipe, buffered, child, handle, consumed>>

(* Mutation: the first poll ends the wait. *)
PollOnce ==
    /\ waitingFor # Nobody
    /\ handle' = [handle EXCEPT ![waitingFor].status = "garbage"]
    /\ waitingFor' = Nobody
    /\ UNCHANGED <<fds, pipe, buffered, child, consumed>>

(* waitpid(pid, WNOHANG) returns the child's number, or an error, which    *)
(* ends the wait too; -1 stands for any child.                             *)
Awaited == IF handle[waitingFor].pid = -1 THEN Children ELSE {handle[waitingFor].pid}
PollReaps ==
    /\ waitingFor # Nobody
    /\ \E c \in Awaited :
          /\ child[c].at = "exited"
          /\ child' = [child EXCEPT ![c].at = "reaped"]
          /\ handle' = [handle EXCEPT ![waitingFor].status = c]
    /\ waitingFor' = Nobody
    /\ UNCHANGED <<fds, pipe, buffered, consumed>>

PollFails ==
    /\ waitingFor # Nobody
    /\ \A c \in Awaited : child[c].at \in {"none", "reaped"}
    /\ handle' = [handle EXCEPT ![waitingFor].status = "error"]
    /\ waitingFor' = Nobody
    /\ UNCHANGED <<fds, pipe, buffered, child, consumed>>

(* waitpid returned 0: the loop asks again at once, for ever if it must.   *)
PollAgain ==
    /\ waitingFor # Nobody
    /\ \E c \in Awaited : child[c].at \in {"forked", "running"}
    /\ UNCHANGED processVars

(* avProcessDiscard, and avProcessKill, which does nothing else: the       *)
(* handle is gone and the child goes on.                                   *)
Discard(c) ==
    /\ Calls
    /\ handle[c].pid # Nobody /\ handle[c].status # "discarded"
    /\ handle' = [handle EXCEPT ![c].status = "discarded"]
    /\ UNCHANGED <<fds, pipe, buffered, child, waitingFor, consumed>>

ChildStep(c) == Redirect(c) \/ ExecFails(c) \/ ChildWrites(c) \/ ChildReads(c) \/ ChildExits(c)

ProcessNext ==
    \/ PipeCreate \/ PipeCreateFails \/ OpenFile
    \/ ConsumeWriteChannel \/ ConsumeReadChannel \/ PipeDestroy
    \/ PollReaps \/ PollFails \/ PollAgain
    \/ \E c \in Children :
          \/ \E input, output \in BOOLEAN : Start(c, input, output)
          \/ StartFails(c) \/ WaitExit(c) \/ Discard(c) \/ ChildStep(c)
    \/ (\A c \in Children : handle[c].status = "discarded") /\ UNCHANGED processVars

ProcessFairness ==
    /\ WF_processVars(PollReaps) /\ WF_processVars(PollFails)
    /\ \A c \in Children : WF_processVars(ChildStep(c))

--------------------------------------------------------------------------------

(* avProcessWaitExit reports the process it was asked about, for as long   *)
(* as every fork succeeds: a failed one is waited for as "any child", and  *)
(* takes another child's status away.                                      *)
StatusIsOfOwnChild ==
    (\A c \in Children : handle[c].pid # -1)
        => \A c \in Children : handle[c].status \in {"none", "discarded", c}

(* No two handles report the end of the same process, also when a fork has *)
(* failed and its handle waits for any child: a status is given out once.  *)
ReportedOnce ==
    \A a, b \in Children : a # b /\ handle[a].status \in Children => handle[b].status # handle[a].status

StatusesSound == StatusIsOfOwnChild /\ ReportedOnce

(* The number of an end that is made and not consumed is never that of     *)
(* something else: the calls of the pipe close a descriptor that belongs   *)
(* to something else only through the number of an end that was consumed   *)
(* before, which avPipeDestroy closes again, or that pipe() never made.    *)
Foreign == {"tty", "file"}
ForeignCloseIsStale ==
    [][\A n \in Fds :
          fds[Parent][n] \in Foreign /\ fds'[Parent][n] \notin Foreign
            => \E e \in PipeEnds \ Owned : pipe[e] = n]_processVars

(* After avPipeDestroy the program has no end of the pipe open, whatever   *)
(* was consumed or opened before.                                          *)
NoEndLeaks == pipe.used = "destroyed" => \A n \in Fds : fds[Parent][n] \notin PipeEnds

(* A child whose input is the pipe, started while the program still had    *)
(* the write end, holds that end itself and never comes to the end of its  *)
(* input, even when the program has consumed its write channel since.      *)
OwnWriteEndBlocks ==
    [][\A c \in Children :
          child[c].at = "running" /\ child[c].reads /\ child[c].heldWriteEnd
            => child'[c].at = "running"]_processVars

(* A reader ends when no write end is open any more, as in a program that  *)
(* runs the writer, consumes the write channel and then runs the reader.   *)
ReadersEnd ==
    \A c \in Children :
        child[c].at = "running" /\ child[c].reads /\ ~HasOpen("write") ~> child[c].at # "running"

(* avProcessWaitExit ends for a child that does not read the pipe when all *)
(* that is still written fits in the pipe.                                 *)
Fits == buffered + FoldSet(LAMBDA c, n : n + child[c].left, 0, Children) <= Capacity
WaitsEnd ==
    \A c \in Children :
        waitingFor = c /\ handle[c].pid = c /\ ~child[c].reads /\ Fits ~> waitingFor = Nobody

PipesAndWaits == ForeignCloseIsStale /\ []NoEndLeaks /\ OwnWriteEndBlocks /\ ReadersEnd /\ WaitsEnd
================================================================================
