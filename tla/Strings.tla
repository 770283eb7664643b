---------------------------------- MODULE Strings ----------------------------------
(***************************************************************************)
(* src/string/avString.c: what the calls on one string find and write.     *)
(* The string is a section of a memory, or of characters without a memory, *)
(* which a call that writes clones first.                                  *)
(***************************************************************************)
EXTENDS Integers, Sequences, FiniteSets, SequencesExt

CONSTANTS Chars,       (* characters, space among them                      *)
          White,       (* avCharIsWhiteSpace                                *)
          Upper,       (* Upper[c]: avCharToUppercase                       *)
          Zero,        (* what avCallocate gives                            *)
          MaxText      (* bound: characters of the string                   *)

VARIABLES data,        (* the characters of the memory, or of the literal   *)
          at, len,     (* the section that the string is                    *)
          held         (* whether there is a memory behind it               *)

stringVars == <<data, at, len, held>>

Text == SubSeq(data, at + 1, at + len)
From(s, i) == SubSeq(s, i + 1, Len(s))
StringNull == -1
Smallest(S) == IF S = {} THEN StringNull ELSE Min(S)
Biggest(S) == IF S = {} THEN StringNull ELSE Max(S)
OccursAt(s, f, i) == i + Len(f) <= Len(s) /\ SubSeq(s, i + 1, i + Len(f)) = f

(* avStringFindFirstOccuranceOf: f is compared up to the end of s.         *)
FindFirst(s, f) ==
    IF Len(s) < Len(f) THEN StringNull
    ELSE Smallest({i \in 0..(Len(s) - 1) : IsPrefix(SubSeq(s, i + 1, Min({Len(s), i + Len(f)})), f)})

(* avStringFindLastOccuranceOf compares at i - 1 and returns i.            *)
FindLast(s, f) == Biggest({i \in 1..(Len(s) - Len(f)) : OccursAt(s, f, i - 1)})

(* Mutation: the pass starts again at the second character. *)
FindCountFromSecond(s, f) ==
    LET Pass(st, c) == IF c # f[st.matched + 1] THEN [st EXCEPT !.matched = 0]
                       ELSE IF st.matched + 1 = Len(f) THEN [matched |-> Len(f) - 1, count |-> st.count + 1]
                       ELSE [st EXCEPT !.matched = @ + 1]
    IN  IF Len(s) < Len(f) THEN 0
        ELSE FoldLeft(Pass, [matched |-> 0, count |-> 0], s).count

(* avStringFindCount: one pass, which never goes back.                     *)
FindCount(s, f) ==
    LET Pass(st, c) == IF c # f[st.matched + 1] THEN [st EXCEPT !.matched = 0]
                       ELSE IF st.matched + 1 = Len(f) THEN [matched |-> 0, count |-> st.count + 1]
                       ELSE [st EXCEPT !.matched = @ + 1]
    IN  IF Len(s) < Len(f) THEN 0
        ELSE FoldLeft(Pass, [matched |-> 0, count |-> 0], s).count

(* avStringMemoryStore: what does not fit is left out.                     *)
Store(memory, o, s) == [i \in DOMAIN memory |-> IF i > o /\ i <= o + Len(s) THEN s[i - o] ELSE memory[i]]
Blank(n) == [i \in 1..n |-> Zero]

(* The place of the next sequence to replace: the first of the closest.    *)
Closest(s, fs) ==
    LET found == {i \in DOMAIN fs : FindFirst(s, fs[i]) # StringNull}
    IN  IF found = {} THEN StringNull
        ELSE CHOOSE i \in found : \A j \in found :
                 /\ FindFirst(s, fs[i]) <= FindFirst(s, fs[j])
                 /\ FindFirst(s, fs[i]) = FindFirst(s, fs[j]) => i <= j

Sum(n, m) == n + m
Counts(s, fs) == [i \in DOMAIN fs |-> FindCount(s, fs[i])]
Total(ns) == FoldLeft(Sum, 0, ns)

(* avStringReplaceAll; with one sequence it is avStringReplace.            *)
Replaced(s, fs, rs) ==
    LET counts == Counts(s, fs)
        size == Len(s) + Total([i \in DOMAIN fs |-> counts[i] * (Len(rs[i]) - Len(fs[i]))])
        Step(st, n) ==
            LET rest == From(s, st.read)
                i == Closest(rest, fs)
                o == FindFirst(rest, fs[i])
            IN  IF st.stopped \/ i = StringNull THEN [st EXCEPT !.stopped = TRUE]
                ELSE [st EXCEPT !.read = @ + o + Len(fs[i]), !.write = @ + o + Len(rs[i]),
                                !.memory = Store(Store(@, st.write, SubSeq(rest, 1, o)), st.write + o, rs[i])]
        end == FoldLeft(Step, [read |-> 0, write |-> 0, memory |-> Blank(size), stopped |-> size = 0],
                        [n \in 1..Total(counts) |-> n])
    IN  [text |-> Store(end.memory, end.write, From(s, end.read)), stopped |-> end.stopped, outside |-> end.read > Len(s)]

(* avStringSplit; avStringCopySection past the end gives an empty string.  *)
Split(s, f) ==
    LET Step(st, n) ==
            LET o == FindFirst(From(s, st.read), f)
            IN  [read |-> st.read + o + Len(f), parts |-> Append(st.parts, SubSeq(s, st.read + 1, st.read + o))]
        end == FoldLeft(Step, [read |-> 0, parts |-> <<>>], [n \in 1..FindCount(s, f) |-> n])
    IN  Append(end.parts, From(s, end.read))

(* avStringSplitOnChar *)
SplitOnChar(s, c) ==
    LET Cut(st, d) == IF d = c THEN Append(st, <<>>) ELSE ReplaceAt(st, Len(st), Append(st[Len(st)], d))
    IN  FoldLeft(Cut, << <<>> >>, s)

(* avStringTrim on the memory of the clone: the tail stays behind it.      *)
Trimmed(s) ==
    LET first == Smallest({i \in DOMAIN s : s[i] \notin White})
    IN  IF first = StringNull THEN [memory |-> s, len |-> 0]
        ELSE [memory |-> Store(s, 0, From(s, first - 1)),
              len |-> Biggest({i \in DOMAIN s : s[i] \notin White}) - first + 1]

Patterns == {<<c>> : c \in Chars} \cup {<<c, d>> : c, d \in Chars}

--------------------------------------------------------------------------------

StringInit ==
    /\ data \in BoundedSeq(Chars, MaxText)
    /\ at = 0 /\ len = Len(data)
    /\ held = FALSE

(* avStringFromMemory of a fresh memory.                                   *)
Becomes(memory, n) ==
    /\ data' = memory /\ at' = 0 /\ len' = n
    /\ held' = TRUE

(* A call that writes in place keeps the section; a string without a       *)
(* memory is cloned first, which leaves it the same section of the clone.  *)
Wrote(memory) ==
    /\ held \/ len > 0
    /\ data' = memory /\ held' = TRUE
    /\ UNCHANGED <<at, len>>

(* avStringReplaceChar and avStringWrite count from the memory's start,    *)
(* avStringToUppercase from the section's.                                 *)
ReplaceChar(c, d) == Wrote([i \in DOMAIN data |-> IF i <= len /\ data[i] = c THEN d ELSE data[i]])
WriteChar(o, c) == o < len /\ Wrote([data EXCEPT ![o + 1] = c])
ToUppercase == Wrote([i \in DOMAIN data |-> IF i > at /\ i <= at + len THEN Upper[data[i]] ELSE data[i]])

(* avStringCopySection of the string over itself.                          *)
CopySection(o, n) ==
    /\ o < len
    /\ LET size == Min({len, n + o}) - o
       IN  IF held THEN at' = at + o /\ len' = size /\ UNCHANGED <<data, held>>
                   ELSE /\ data' = SubSeq(data, o + 1, o + size)
                        /\ at' = 0 /\ len' = size
                        /\ UNCHANGED held

AppendText(s) ==
    /\ len + Len(s) \in 1..MaxText
    /\ Becomes(Text \o s, len + Len(s))
(* A call with a destination gives it another string, and the model goes   *)
(* on with that one.  avStringReplaceAll stops when nothing is left to     *)
(* replace or to store.                                                    *)
ReplaceAllOf(fs, rs) ==
    /\ len > 0
    /\ LET result == Replaced(Text, fs, rs)
       IN  /\ ~result.stopped /\ ~result.outside
           /\ Len(result.text) <= MaxText
           /\ Becomes(result.text, Len(result.text))
Flip == len > 0 /\ Becomes(Reverse(Text), len)
Trim == len > 0 /\ Becomes(Trimmed(Text).memory, Trimmed(Text).len)

StringNext ==
    \/ \E c, d \in Chars : ReplaceChar(c, d)
    \/ \E o \in 0..(MaxText - 1), c \in Chars : WriteChar(o, c)
    \/ \E o, n \in 0..MaxText : CopySection(o, n)
    \/ \E c, d \in Chars : AppendText(<<c>>) \/ AppendText(<<c, d>>)
    \/ \E f \in Patterns, c \in Chars : ReplaceAllOf(<<f>>, << <<c>> >>)
    \/ \E c, d \in Chars : ReplaceAllOf(<< <<c, d>>, <<d>> >>, << <<d>>, <<c, c>> >>)
    \/ ToUppercase \/ Flip \/ Trim

--------------------------------------------------------------------------------

(* An occurrence that is there is found, the first of them; without one,   *)
(* what is found is an end of the text with which the pattern begins.      *)
FindsFirst ==
    \A f \in Patterns :
        LET o == FindFirst(Text, f)
            places == {i \in 0..len : OccursAt(Text, f, i)}
        IN  IF places # {} THEN o = Min(places)
            ELSE o = StringNull \/ (o + Len(f) > len /\ IsPrefix(From(Text, o), f))

(* The two searches for what occurs once, not at the end, are one apart.   *)
(* What occurs at the end only is not found from there.                    *)
FindsLast ==
    \A f \in Patterns :
        LET places == {i \in 0..len : OccursAt(Text, f, i)}
        IN  /\ Cardinality(places) = 1 /\ FindFirst(Text, f) + Len(f) < len => FindLast(Text, f) = FindFirst(Text, f) + 1
            /\ places = {len - Len(f)} => FindLast(Text, f) = StringNull

Joined(parts, f) == FoldLeft(LAMBDA s, p : s \o f \o p, Head(parts), Tail(parts))

(* The one pass counts no more than the searches find: splitting cuts at   *)
(* the earliest occurrences, as many as were counted, the sections with    *)
(* their separators are the text, and replacing puts the replacement in    *)
(* the separators' places, in a memory of the right size.                  *)
CutsAndReplaces ==
    \A f \in Patterns :
        LET parts == Split(Text, f)
        IN  /\ Len(parts) = FindCount(Text, f) + 1
            /\ Joined(parts, f) = Text
            /\ \A n \in 1..(Len(parts) - 1) :
                   \A i \in 0..len : ~OccursAt(parts[n] \o Front(f), f, i)
            /\ \A r \in Patterns \cup {<<>>} :
                   Joined(parts, r) # <<>> =>
                       Replaced(Text, <<f>>, <<r>>) = [text |-> Joined(parts, r), stopped |-> FALSE, outside |-> FALSE]

CountsAll(f) == \A i \in 0..len : ~OccursAt(Last(Split(Text, f)), f, i)

(* Splitting on a character and on the string of it is the same.           *)
SplitsAlike == \A c \in Chars : SplitOnChar(Text, c) = Split(Text, <<c>>)

(* Two sequences that share no character and are counted in full are       *)
(* replaced at once as they are one after the other.  With a character in  *)
(* common, or one that the pass misses, the counts are not those of what   *)
(* is found, and the call may leave some, read past the text or stop.      *)
ReplacesInAnyOrder ==
    \A f, g \in {p \in Patterns : CountsAll(p)} :
        ToSet(f) \cap ToSet(g) = {} =>
            LET other == <<Zero, Zero, Zero>>
                both == Replaced(Text, <<f, g>>, <<other, <<Zero>> >>)
                inTurn == Replaced(Replaced(Text, <<f>>, <<other>>).text, <<g>>, << <<Zero>> >>)
            IN  both = inTurn /\ ~both.stopped /\ ~both.outside

(* What is trimmed is white, at the ends, and all of it.                   *)
TrimsTheEnds ==
    LET inner == SubSeq(Trimmed(Text).memory, 1, Trimmed(Text).len)
    IN  /\ inner = <<>> \/ (inner[1] \notin White /\ inner[Len(inner)] \notin White)
        /\ \E i \in 0..len : /\ OccursAt(Text, inner, i)
                             /\ ToSet(SubSeq(Text, 1, i) \o From(Text, i + Len(inner))) \subseteq White

(* The string stays in its memory, and its calls find what they change:    *)
(* the text is every text of MaxText characters as long as it is literal.  *)
StringsSound ==
    /\ at + len <= Len(data)
    /\ ~held /\ len > 0 => FindsFirst /\ FindsLast /\ SplitsAlike /\ CutsAndReplaces /\ ReplacesInAnyOrder /\ TrimsTheEnds
================================================================================
