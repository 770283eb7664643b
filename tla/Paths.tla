----------------------------------- MODULE Paths -----------------------------------
(***************************************************************************)
(* src/string/avString.c, POSIX: avStringPathNormalize and                 *)
(* avStringPathResolveRelative.  A path is absolute or not, has segments,  *)
(* and may end in a separator.                                             *)
(***************************************************************************)
EXTENDS Integers, Sequences, FiniteSets, SequencesExt

CONSTANTS Names,       (* segments that are the names of files              *)
          MaxSegments  (* bound: segments of a path                         *)

VARIABLE path

PathsUpTo(n) ==
    {p \in [absolute : BOOLEAN, segments : BoundedSeq(Names \cup {".", ".."}, n), closed : BOOLEAN] :
        p.closed => p.segments # <<>>}

(* The stack of avStringPathNormalize after one more segment.              *)
Push(absolute, stack, segment) ==
    CASE segment = "." -> stack
      [] segment = ".." -> IF stack # <<>> THEN Front(stack)
                           ELSE IF absolute THEN stack ELSE <<"..">>
      [] OTHER -> Append(stack, segment)

Normalized(p) ==
    [p EXCEPT !.segments = FoldLeft(LAMBDA stack, s : Push(p.absolute, stack, s), <<>>, p.segments),
              !.closed = FALSE]

(* The base up to its last separator, in front of a relative path.         *)
Directory(base) ==
    [base EXCEPT !.segments = IF @ = <<>> \/ base.closed THEN @ ELSE Front(@), !.closed = FALSE]
Combined(base, p) ==
    IF p.absolute THEN p ELSE [p EXCEPT !.absolute = base.absolute, !.segments = Directory(base).segments \o @]

PathInit == path \in PathsUpTo(MaxSegments)

IsEmpty(p) == ~p.absolute /\ p.segments = <<>>

(* The result is cloned into the path, which stops when it is empty; an    *)
(* empty path is left as it is.                                            *)
Normalize ==
    /\ IsEmpty(path) \/ ~IsEmpty(Normalized(path))
    /\ path' = IF IsEmpty(path) THEN path ELSE Normalized(path)

ResolveRelative(p) ==
    /\ p.absolute \/ ~IsEmpty(path)
    /\ Len(path.segments) + Len(p.segments) <= MaxSegments
    /\ ~IsEmpty(Normalized(Combined(path, p)))
    /\ path' = Normalized(Combined(path, p))

PathNext == Normalize \/ \E p \in PathsUpTo(2) : ResolveRelative(p)

--------------------------------------------------------------------------------

(* Where a path leads: so many directories up, then down by these names.   *)
(* The parent of the root is the root.                                     *)
Place(p) ==
    FoldLeft(LAMBDA place, s :
                 CASE s = "." -> place
                   [] s = ".." /\ place.down # <<>> -> [place EXCEPT !.down = Front(@)]
                   [] s = ".." /\ place.down = <<>> -> [place EXCEPT !.up = IF p.absolute THEN 0 ELSE @ + 1]
                   [] OTHER -> [place EXCEPT !.down = Append(@, s)],
             [up |-> 0, down |-> <<>>], p.segments)

(* A normal path leads where the path led, has no more segments than that  *)
(* takes, and is normal.  A path more than one directory up from where it  *)
(* starts is left out: its second ".." takes the first one away.           *)
PathSound ==
    LET normal == Normalized(path)
    IN  /\ Normalized(normal) = normal
        /\ Place(path).up <= 1 =>
               /\ Place(normal) = Place(path)
               /\ Len(normal.segments) = Place(path).up + Len(Place(path).down)
        /\ \A p \in PathsUpTo(2) : ~p.absolute /\ ~IsEmpty(p) =>
               LET whole == [path EXCEPT !.segments = Directory(path).segments \o p.segments]
               IN  Place(whole).up <= 1 => Place(Normalized(Combined(path, p))) = Place(whole)
================================================================================
