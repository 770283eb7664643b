------------------------------- MODULE Directories -------------------------------
(***************************************************************************)
(* src/filesystem/avDirectory.c, POSIX: avDirectoryDelete with             *)
(* AV_DIRECTORY_DELETE_RECURSIVE, one step per call of the system, while   *)
(* another program adds and removes entries.                               *)
(*                                                                         *)
(* A node is an entry of a directory: a file, a directory, a link to the   *)
(* directory Elsewhere, which is not part of the tree, or a link to        *)
(* nothing.  The calls of the system fail for the reasons below; opendir   *)
(* may be refused, for want of a right or of a descriptor.                 *)
(***************************************************************************)
EXTENDS Integers, Sequences, FiniteSets, SequencesExt

CONSTANTS Nodes,       (* the entries                                       *)
          Top,         (* the node of the directory that is deleted         *)
          Elsewhere,   (* a directory outside of it                         *)
          Nowhere,
          MaxChanges   (* bound: changes by others, and refused calls       *)

ASSUME PlacesAreApart == Top \in Nodes /\ Elsewhere \notin Nodes /\ Nowhere \notin Nodes \cup {Elsewhere}

VARIABLES tree,        (* tree[n]: what n is and which directory it is in   *)
          stack,       (* the frames of avDirectoryDeleteRecursivePosix     *)
          result,      (* what avDirectoryDelete returned                   *)
          before,      (* the tree when it was called                       *)
          changes      (* how often another program has changed the tree,   *)
                       (* or the system has refused a call, so far          *)

deleteVars == <<tree, stack, result, before, changes>>

Entries(t, d) == {n \in Nodes : t[n].kind # "none" /\ t[n].in = d}
(* The directory behind a path, for opendir.                               *)
Dir(n) == IF tree[n].kind = "link" THEN Elsewhere ELSE n
IsDir(n) == tree[n].kind \in {"dir", "link"}

(* Top is not in a directory that is modelled.                             *)
Trees ==
    {[n \in Nodes |-> IF n = Top THEN [kind |-> "dir", in |-> Nowhere] ELSE t[n]] : t \in
        {t \in [Nodes \ {Top} -> [kind : {"none", "file", "dir", "link", "broken"}, in : Nodes \cup {Elsewhere}]] :
            \A n \in DOMAIN t :
                /\ t[n].in # n
                /\ t[n].in \in DOMAIN t => t[t[n].in] = [kind |-> "dir", in |-> Top]
                /\ t[n].in = Elsewhere => t[n].kind \in {"none", "file"}
                /\ t[n].kind = "none" => t[n].in = Elsewhere}}

DeleteInit ==
    /\ tree \in Trees
    /\ before = tree
    /\ stack = <<>>
    /\ result = "none"
    /\ changes = 0

(* A call before opendir; dir and due get their values there.              *)
Frame(n) == [node |-> n, at |-> "opening", dir |-> n, due |-> Nodes, seen |-> {}, file |-> Nowhere]
Current == stack[Len(stack)]
At(place) == stack # <<>> /\ Current.at = place
CurrentBecomes(frame) == stack' = [stack EXCEPT ![Len(stack)] = frame]

(* The call.                                                               *)
DeleteTop ==
    /\ result = "none" /\ stack = <<>>
    /\ stack' = <<Frame(Top)>>
    /\ UNCHANGED <<tree, result, before, changes>>

(* opendir of a directory, or of a link to one.                            *)
OpenDirectory ==
    /\ At("opening")
    /\ IsDir(Current.node)
    /\ LET d == Dir(Current.node)
       IN  CurrentBecomes([Current EXCEPT !.at = "reading", !.dir = d, !.due = Entries(tree, d)])
    /\ UNCHANGED <<tree, result, before, changes>>

(* opendir fails, as there is no such directory any more, or as it is      *)
(* refused; rmdir follows.                                                 *)
OpenDirectoryFails ==
    /\ At("opening")
    /\ changes' = IF IsDir(Current.node) THEN changes + 1 ELSE changes
    /\ changes' <= MaxChanges
    /\ CurrentBecomes([Current EXCEPT !.at = "removing"])
    /\ UNCHANGED <<tree, result, before>>

(* readdir returns every entry that was there when the directory was       *)
(* opened, unless it is removed, and perhaps some that were added since.   *)
Reads(n) ==
    /\ At("reading") /\ Current.file = Nowhere
    /\ n \in Entries(tree, Current.dir) \ Current.seen
Seen(n) == [stack EXCEPT ![Len(stack)].seen = @ \cup {n}]

(* stat fails: the entry is left where it is.                              *)
SkipEntry(n) ==
    /\ Reads(n)
    /\ tree[n].kind = "broken"
    /\ stack' = Seen(n)
    /\ UNCHANGED <<tree, result, before, changes>>

(* stat says that it is a directory, or a link to one: a recursive call.   *)
Enter(n) ==
    /\ Reads(n)
    /\ IsDir(n)
    /\ stack' = Seen(n) \o <<Frame(n)>>
    /\ UNCHANGED <<tree, result, before, changes>>

Gone(n) == [tree EXCEPT ![n] = [kind |-> "none", in |-> Elsewhere]]

(* stat says that it is a file.                                            *)
FindFile(n) ==
    /\ Reads(n)
    /\ tree[n].kind = "file"
    /\ stack' = [Seen(n) EXCEPT ![Len(stack)].file = n]
    /\ UNCHANGED <<tree, result, before, changes>>

UnlinkEntry ==
    /\ stack # <<>> /\ Current.file # Nowhere
    /\ tree[Current.file].kind = "file" /\ tree[Current.file].in = Current.dir
    /\ tree' = Gone(Current.file)
    /\ stack' = [stack EXCEPT ![Len(stack)].file = Nowhere]
    /\ UNCHANGED <<result, before, changes>>

(* The file was removed since stat.                                        *)
UnlinkFails ==
    /\ stack # <<>> /\ Current.file # Nowhere
    /\ ~(tree[Current.file].kind = "file" /\ tree[Current.file].in = Current.dir)
    /\ stack' = <<>>
    /\ result' = "false"
    /\ UNCHANGED <<tree, before, changes>>

AtEnd ==
    \/ At("removing")
    \/ /\ At("reading") /\ Current.file = Nowhere
       /\ Entries(tree, Current.dir) \cap Current.due \subseteq Current.seen
Removable(n) == tree[n].kind = "dir" /\ Entries(tree, n) = {}

(* rmdir at the end of the directory, or when it was not opened; the       *)
(* caller goes on.                                                         *)
RemoveDirectory ==
    /\ AtEnd
    /\ Removable(Current.node)
    /\ tree' = Gone(Current.node)
    /\ stack' = Front(stack)
    /\ result' = IF Len(stack) = 1 THEN "true" ELSE "none"
    /\ UNCHANGED <<before, changes>>

(* Mutation: a directory that can't be removed is passed over. *)
RemoveFailsSilently ==
    /\ AtEnd
    /\ ~Removable(Current.node)
    /\ stack' = Front(stack)
    /\ result' = IF Len(stack) = 1 THEN "true" ELSE "none"
    /\ UNCHANGED <<tree, before, changes>>

(* rmdir fails: not a directory but a link, or not empty.  Every caller    *)
(* gives up too.                                                           *)
RemoveFails ==
    /\ AtEnd
    /\ ~Removable(Current.node)
    /\ stack' = <<>>
    /\ result' = "false"
    /\ UNCHANGED <<tree, before, changes>>

(* The other program.                                                      *)
Adds(n, d) ==
    /\ changes < MaxChanges /\ result = "none"
    /\ tree[n].kind = "none" /\ n # Top
    /\ d \in Nodes => tree[d].kind = "dir"
    /\ tree' = [tree EXCEPT ![n] = [kind |-> "file", in |-> d]]
    /\ changes' = changes + 1
    /\ UNCHANGED <<stack, result, before>>

Removes(n) ==
    /\ changes < MaxChanges /\ result = "none"
    /\ tree[n].kind # "none" /\ Entries(tree, n) = {}
    /\ tree' = Gone(n)
    /\ changes' = changes + 1
    /\ UNCHANGED <<stack, result, before>>

Deleting ==
    \/ DeleteTop \/ OpenDirectory \/ OpenDirectoryFails \/ RemoveDirectory \/ RemoveFails
    \/ UnlinkEntry \/ UnlinkFails
    \/ \E n \in Nodes : SkipEntry(n) \/ Enter(n) \/ FindFile(n)

DeleteNext ==
    \/ Deleting
    \/ \E n \in Nodes : Removes(n) \/ \E d \in Nodes \cup {Elsewhere} : Adds(n, d)
    \/ result # "none" /\ UNCHANGED deleteVars

--------------------------------------------------------------------------------

Plain == \A n \in Nodes : before[n].kind \notin {"link", "broken"}

(* True means that the directory is gone, with all there was in it.  If    *)
(* nobody else changes the directory and opendir is not refused, a tree of *)
(* files and directories is deleted, and nothing else; with a link in it   *)
(* the call answers false.                                                 *)
(* Whoever adds an entry meanwhile never finds it in a directory that is   *)
(* gone.                                                                   *)
DeleteSound ==
    /\ result = "true" => tree[Top].kind = "none"
    /\ \A n \in Nodes : tree[n].kind # "none" /\ tree[n].in \in Nodes => tree[tree[n].in].kind = "dir"
    /\ changes = 0 /\ result # "none" => (result = "true" <=> Plain)
    /\ changes = 0 /\ Plain => Entries(tree, Elsewhere) = Entries(before, Elsewhere)
================================================================================
