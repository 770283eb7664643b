----------------------------------- MODULE Regex -----------------------------------
(***************************************************************************)
(* src/string/avRegex.c: a regular expression parsed one character per     *)
(* step, and the match of its elements against a string.  An open group is *)
(* a frame of parseRegex.                                                  *)
(***************************************************************************)
EXTENDS Integers, Sequences, FiniteSets, SequencesExt

CONSTANTS Letters,     (* characters that stand for themselves              *)
          Control,     (* what some letters become behind a backslash       *)
          Alphabet,    (* the characters of the strings to match            *)
          MaxRegex,    (* bound: characters of an expression                *)
          MaxSubject   (* bound: characters of a string to match            *)

ASSUME EscapesAreLetters == DOMAIN Control \subseteq Letters

VARIABLES regex,       (* the characters parsed so far                      *)
          frames,      (* the elements of the expression and its open groups *)
          escaped,     (* the last character was a backslash                *)
          parsed       (* "open", or how the parse ended                    *)

regexVars == <<regex, frames, escaped, parsed>>

Once(type, chr, content) == [type |-> type, chr |-> chr, content |-> content, quantifier |-> "one"]
Literal(c) == Once("literal", c, <<>>)
Wildcard == Once("wildcard", ".", <<>>)
Group(elements) == Once("group", "(", elements)

RegexInit ==
    /\ regex = <<>>
    /\ frames = << <<>> >>
    /\ escaped = FALSE
    /\ parsed = "open"

Elements == Last(frames)
WithElements(elements) == ReplaceAt(frames, Len(frames), elements)
Taking(c) == parsed = "open" /\ Len(regex) < MaxRegex /\ regex' = Append(regex, c)

(* Behind a backslash an operator stands for itself, and some letters for  *)
(* a control character.                                                    *)
Operators == {"\\", ".", "?", "*", "+", "(", ")"}
Meaning(c) == IF escaped /\ c \in DOMAIN Control THEN Control[c] ELSE c
AddLiteral(c) ==
    /\ Taking(c)
    /\ escaped \/ c \in Letters
    /\ frames' = WithElements(Append(Elements, Literal(Meaning(c))))
    /\ escaped' = FALSE
    /\ UNCHANGED parsed

AddWildcard ==
    /\ Taking(".") /\ ~escaped
    /\ frames' = WithElements(Append(Elements, Wildcard))
    /\ UNCHANGED <<escaped, parsed>>

(* A backslash at the end stops the program.                               *)
Escape ==
    /\ Taking("\\") /\ ~escaped /\ Len(regex) + 1 < MaxRegex
    /\ escaped' = TRUE
    /\ UNCHANGED <<frames, parsed>>

Plain == Elements # <<>> /\ Last(Elements).quantifier = "one"
Quantified(q) == [Last(Elements) EXCEPT !.quantifier = q]

(* ? and * mark the last element; + repeats it and marks the repetition.   *)
Repeat(c) ==
    /\ Taking(c) /\ ~escaped
    /\ Plain
    /\ frames' = WithElements(CASE c = "?" -> Append(Front(Elements), Quantified("optional"))
                                [] c = "*" -> Append(Front(Elements), Quantified("any"))
                                [] c = "+" -> Append(Elements, Quantified("any")))
    /\ UNCHANGED <<escaped, parsed>>
RepeatNothing(c) ==
    /\ Taking(c) /\ ~escaped
    /\ ~Plain
    /\ parsed' = "invalid"
    /\ UNCHANGED <<frames, escaped>>

OpenGroup ==
    /\ Taking("(") /\ ~escaped
    /\ frames' = Append(frames, <<>>)
    /\ UNCHANGED <<escaped, parsed>>

Closed == Append(Front(Front(frames)), Append(Last(Front(frames)), Group(Elements)))
CloseGroup ==
    /\ Taking(")") /\ ~escaped
    /\ Len(frames) > 1
    /\ frames' = Closed
    /\ UNCHANGED <<escaped, parsed>>

(* A parenthesis that closes nothing ends the parse without an error, and  *)
(* so does the end, except in a group.                                     *)
CloseNothing ==
    /\ Taking(")") /\ ~escaped
    /\ Len(frames) = 1
    /\ parsed' = "done"
    /\ UNCHANGED <<frames, escaped>>
EndRegex ==
    /\ parsed = "open" /\ ~escaped
    /\ parsed' = IF Len(frames) = 1 THEN "done" ELSE "unexpected end"
    /\ UNCHANGED <<regex, frames, escaped>>

RegexNext ==
    \/ \E c \in Letters \cup Operators : AddLiteral(c)
    \/ AddWildcard \/ Escape
    \/ \E c \in {"?", "*", "+"} : Repeat(c) \/ RepeatNothing(c)
    \/ OpenGroup \/ CloseGroup \/ CloseNothing \/ EndRegex
    \/ parsed # "open" /\ UNCHANGED regexVars

--------------------------------------------------------------------------------

(* The elements: after an error those of the open groups too.              *)
RegexRoot == FoldRight(LAMBDA frame, content : Append(frame, Group(content)), Front(frames), Elements)

(* regexMatch.  A character is read for every element, for a group too,    *)
(* whose content starts behind it.  What once fails has failed for good,   *)
(* and a repetition goes on until it fails or the string ends.             *)
RECURSIVE Match(_, _, _)
Match(elements, s, m) ==
    IF elements = <<>> THEN m
    ELSE IF m.index = Len(s) THEN [m EXCEPT !.matched = FALSE]
    ELSE LET e == Head(elements)
             fits == e.type = "wildcard" \/ s[m.index + 1] = e.chr
             one == IF e.type = "group" THEN Match(e.content, s, [matched |-> TRUE, index |-> m.index + 1, count |-> 0])
                    ELSE [matched |-> fits, index |-> m.index + 1, count |-> IF fits THEN 1 ELSE 0]
             all == m.matched /\ one.matched
         IN  Match(IF e.quantifier = "any" /\ all THEN elements ELSE Tail(elements), s,
                   [matched |-> all, index |-> IF all \/ e.quantifier = "one" THEN one.index ELSE m.index,
                    count |-> m.count + one.count])

(* avRegexMatch: with a place for the error there is never a match.        *)
RegexMatch(s, withError) ==
    IF withError THEN [matched |-> FALSE, count |-> 0]
    ELSE LET m == Match(RegexRoot, s, [matched |-> TRUE, index |-> 0, count |-> 0])
         IN  [matched |-> m.matched, count |-> m.count]

--------------------------------------------------------------------------------

(* The expression as it is written: what each place asks for and how often. *)
Written ==
    LET Asking(set) == [asks |-> set, often |-> "one"]
        Read(st, c) ==
            CASE st.behind -> [st EXCEPT !.behind = FALSE, !.places = Append(@, Asking(
                                   IF c \in DOMAIN Control THEN {Control[c]} ELSE {c}))]
              [] c = "\\" -> [st EXCEPT !.behind = TRUE]
              [] c = ")" -> st
              [] c = "(" -> [st EXCEPT !.groups = @ + 1, !.places = Append(@, Asking(Alphabet))]
              [] c \in {"?", "*", "+"} -> [st EXCEPT !.places[Len(st.places)].often = c]
              [] OTHER -> [st EXCEPT !.places = Append(@, Asking(IF c = "." THEN Alphabet ELSE {c}))]
    IN  FoldLeft(Read, [behind |-> FALSE, groups |-> 0, places |-> <<>>], regex)

(* The language of an expression without groups: how far its places, one   *)
(* after the other, can lead into a string.                                *)
Reached(s, places) ==
    LET Over(p, q, place) == \A i \in p + 1..q : s[i] \in place.asks
        Further(from, place) ==
            {q \in 0..Len(s) : \E p \in from :
                /\ p <= q /\ Over(p, q, place)
                /\ place.often \in {"one", "?"} => q <= p + 1
                /\ place.often \in {"one", "+"} => q > p}
    IN  FoldLeft(Further, {0}, places)

(* A match is a match: the characters that are counted are a word that the *)
(* expression describes, they are in the string, and a longer string       *)
(* matches no less.  Without quantifiers every string that begins with a   *)
(* word matches.  What quantifiers and groups miss, and what a group skips *)
(* without counting it, is not stated.                                     *)
RegexSound ==
    parsed = "done" =>
        \A s \in BoundedSeq(Alphabet, MaxSubject) :
            LET m == RegexMatch(s, FALSE)
                places == Written.places
                begin == IF s = <<>> THEN m ELSE RegexMatch(Front(s), FALSE)
            IN  /\ m.matched => m.count <= Len(s)
                /\ begin.matched => m.matched /\ m.count >= begin.count
                /\ Written.groups = 0 =>
                      /\ m.matched => m.count \in Reached(s, places)
                      /\ (\A i \in DOMAIN places : places[i].often = "one") =>
                            (m.matched <=> Reached(s, places) # {})
================================================================================
