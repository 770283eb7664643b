--------------------------------- MODULE Tokenizer ---------------------------------
(***************************************************************************)
(* src/parsing/avTokenizer.c: avTokenizeString, one step per turn of its   *)
(* loop.  A turn reads one more character, the one behind the text last,   *)
(* and tries the text since the token's start against every rule.          *)
(***************************************************************************)
EXTENDS Integers, Sequences, FiniteSets, SequencesExt

CONSTANTS Characters,  (* what a text is written in                         *)
          Blanks,      (* avCharIsWhiteSpace, newline among them            *)
          Newline, Backslash, Terminator,
          Languages,   (* sequences of rules                                *)
          Ignore,      (* TOKEN_TYPE_IGNORE                                 *)
          Range32,     (* the range of a uint32, which places and lines are *)
          MaxInput     (* bound: characters of a text                       *)

ASSUME PlacesFit == MaxInput + 2 < Range32

VARIABLES input,       (* the text, with the character behind it            *)
          rules,       (* the rules                                         *)
          index,       (* the place of the character that comes next        *)
          tokenStart,  (* where the token starts, or Unset                  *)
          line,        (* the count of lines                                *)
          ruleStates,  (* what each rule said of the text so far            *)
          validTokens, (* the rules that have matched, and up to where      *)
          tokens,      (* the tokens found                                  *)
          code         (* "running", or the result                          *)

tokenVars == <<input, rules, index, tokenStart, line, ruleStates, validTokens, tokens, code>>

Unset == -1
Behind(s, n) == SubSeq(s, n + 1, Len(s))
Rules == DOMAIN rules

(* checkString; every text goes past an empty sequence.                    *)
CheckString(sequence, s) ==
    CASE ~IsPrefix(sequence, s) /\ ~IsPrefix(s, sequence) -> "invalid"
      [] Len(s) < Len(sequence) -> "partial"
      [] Len(s) = Len(sequence) -> "complete"
      [] OTHER -> "overrun"

(* checkEndsWith: the first occurrence, or the next when there is a        *)
(* backslash before it; a backslash that is the first character of s, or   *)
(* the one before the second, does not count.                              *)
RECURSIVE CheckEndsWith(_, _, _)
CheckEndsWith(sequence, s, useEscape) ==
    LET places == {i \in 0..(Len(s) - Len(sequence)) : SubSeq(s, i + 1, i + Len(sequence)) = sequence}
        offset == Min(places)
    IN  CASE sequence = <<>> \/ places = {} -> "partial"
          [] OTHER -> IF useEscape /\ offset > 1 /\ s[offset] = Backslash
                      THEN CheckEndsWith(sequence, Behind(s, offset + 1), useEscape)
                      ELSE IF offset = Len(s) - Len(sequence) THEN "complete" ELSE "overrun"

(* The loop of testRangeRule over the characters: the places of those that *)
(* are not valid.  Escaped[i]: a character behind the first i is.          *)
Invalid(rule, s) ==
    LET Escaped[i \in 0..Len(s)] ==
            /\ i > 0
            /\ IF s[i] = Newline THEN Escaped[i - 1] ELSE rule.useEscape /\ s[i] = Backslash /\ ~Escaped[i - 1]
    IN  {i \in DOMAIN s : /\ rule.text # {} /\ s[i] \notin rule.text \ {Newline}
                          /\ s[i] = Newline \/ ~(Escaped[i - 1] \/ Escaped[i])}

(* testRangeRule: a start, characters of the text, or any, and an end.     *)
TestRange(rule, s) ==
    LET start == CheckString(rule.startsWith, s)
        rest == Behind(s, Len(rule.startsWith))
        ending == CheckEndsWith(rule.endsWith, rest, rule.useEscape)
        invalid == Invalid(rule, rest)
    IN  IF start # "overrun" THEN IF start = "complete" THEN "partial" ELSE start
        ELSE IF ending # "partial" THEN ending
        ELSE CASE invalid = {} -> "partial" [] 1 \in invalid -> "invalid" [] OTHER -> "overrun"

TestRule(rule, s) == IF rule.ruleType = "exact" THEN CheckString(rule.exact, s) ELSE TestRange(rule, s)

TokenizerInit ==
    /\ rules \in Languages
    /\ input \in {Append(text, behind) : text \in BoundedSeq(Characters, MaxInput) \ {<<>>},
                                         behind \in Characters \cup {Terminator}}
    /\ index = 0
    /\ tokenStart = Unset
    /\ line = 1
    /\ ruleStates = [r \in Rules |-> "partial"]
    /\ validTokens = {}
    /\ tokens = <<>>
    /\ code = "running"

Length == Len(input) - 1
Start == IF tokenStart = Unset THEN index ELSE tokenStart
TokenStr == SubSeq(input, Start + 1, index + 1)
(* A turn: what the rules say of the text with one more character, and     *)
(* which have matched: those that have just gone past it are added.        *)
Turn ==
    LET results == [r \in Rules |-> IF ruleStates[r] = "invalid" THEN "invalid" ELSE TestRule(rules[r], TokenStr)]
        past == {r \in Rules : ruleStates[r] \in {"complete", "partial"} /\ results[r] = "overrun"}
    IN  [results |-> results,
         matches |-> validTokens \cup {[rule |-> r, end |-> (index - 1) % Range32] : r \in past}]

(* Nothing is decided yet: no rule has matched and some may still, or some *)
(* has and others may match more.                                          *)
Undecided(turn) ==
    LET said == ToSet(turn.results)
    IN  IF turn.matches = {} THEN said # {"invalid"} ELSE said \cap {"complete", "partial"} # {}


(* The end of the longest matches, and their types.                        *)
LongestEnd(matches) == Max({m.end : m \in matches})
TypesOf(matches) == {rules[m.rule].type : m \in {m \in matches : m.end = LongestEnd(matches)}}

Read ==
    /\ code = "running"
    /\ index <= Length
    /\ line' = IF input[index + 1] = Newline THEN (line + 1) % Range32 ELSE line

(* Mutation: the loop does not count on. *)
ResetToSame(place) ==
    /\ index' = place
    /\ tokenStart' = Unset
    /\ validTokens' = {}
    /\ ruleStates' = [r \in Rules |-> "partial"]

(* resetToken, from which the loop goes on behind the place given.         *)
ResetTo(place) ==
    /\ index' = (place + 1) % Range32
    /\ tokenStart' = Unset
    /\ validTokens' = {}
    /\ ruleStates' = [r \in Rules |-> "partial"]

Continue(turn) ==
    /\ Undecided(turn)
    /\ index' = index + 1
    /\ tokenStart' = Start
    /\ validTokens' = turn.matches
    /\ ruleStates' = turn.results
    /\ UNCHANGED <<input, rules, tokens, code>>

(* No rule has matched and none can: the text so far is left out when a    *)
(* white space follows it, or is all of it.                                *)
SkipBlank(turn) ==
    /\ turn.matches = {} /\ ~Undecided(turn)
    /\ input[index + 1] \in Blanks
    /\ ResetTo(index)
    /\ UNCHANGED <<input, rules, tokens, code>>
NoRule(turn) ==
    /\ turn.matches = {} /\ ~Undecided(turn)
    /\ input[index + 1] \notin Blanks
    /\ code' = IF index = Length THEN "ok" ELSE "no rule found"
    /\ UNCHANGED <<input, rules, index, tokenStart, ruleStates, validTokens, tokens>>

Ambiguous(turn) ==
    /\ turn.matches # {} /\ ~Undecided(turn)
    /\ Cardinality(TypesOf(turn.matches)) > 1
    /\ code' = "ambiguous"
    /\ UNCHANGED <<input, rules, index, tokenStart, ruleStates, validTokens, tokens>>

(* The token's text is all that was tried but the last character; the      *)
(* search goes on behind what the longest rule has matched.                *)
Emit(turn) ==
    LET end == LongestEnd(turn.matches)
        type == CHOOSE t \in TypesOf(turn.matches) : TRUE
    IN  /\ turn.matches # {} /\ ~Undecided(turn)
        /\ Cardinality(TypesOf(turn.matches)) = 1
        /\ tokens' = IF type = Ignore THEN tokens
                     ELSE Append(tokens, [type |-> type, start |-> Start, text |-> Front(TokenStr),
                                          end |-> end, line |-> line'])
        /\ ResetTo(end)
        /\ UNCHANGED <<input, rules, code>>

(* The loop ends behind the terminator.                                    *)
Exhausted ==
    /\ code = "running"
    /\ index > Length
    /\ code' = "ok"
    /\ UNCHANGED <<input, rules, index, tokenStart, line, ruleStates, validTokens, tokens>>

TokenizerStep ==
    \/ /\ Read
       /\ \E turn \in {Turn} :
             Continue(turn) \/ SkipBlank(turn) \/ NoRule(turn) \/ Ambiguous(turn) \/ Emit(turn)
    \/ Exhausted
TokenizerNext == TokenizerStep \/ (code # "running" /\ UNCHANGED tokenVars)
TokenizerFairness == WF_tokenVars(TokenizerStep)

(* What a rule stands for: whether it matches a text from end to end.      *)
Means(rule, s) ==
    IF rule.ruleType = "exact" THEN s = rule.exact
    ELSE IF rule.startsWith = <<>> THEN s # <<>> /\ ToSet(s) \subseteq rule.text
    ELSE \E n \in (Len(rule.startsWith) + 1)..Len(s) :
             /\ s = rule.startsWith \o SubSeq(s, Len(rule.startsWith) + 1, n - 1) \o rule.endsWith
             /\ ToSet(SubSeq(s, Len(rule.startsWith) + 1, n - 1)) \cap (ToSet(rule.endsWith) \cup {Backslash}) = {}

Slice(from, to) == SubSeq(input, from + 1, to + 1)
Escapes(t) == \E i \in 1..Len(t.text) : t.text[i] = Backslash

(* A token is what a rule of its type matches, no rule matches more from   *)
(* there, and the tokens are in the order of the text, without an overlap. *)
TokensMatch ==
    \A k \in DOMAIN tokens :
        LET t == tokens[k]
        IN  /\ IsPrefix(Slice(t.start, t.end), t.text)
            /\ k < Len(tokens) => t.end < tokens[k + 1].start
            /\ ~Escapes(t) =>
                   /\ \E r \in Rules : rules[r].type = t.type /\ Means(rules[r], Slice(t.start, t.end))
                   /\ \A r \in Rules, n \in (t.end + 1)..(Length - 1) : ~Means(rules[r], Slice(t.start, n))

Covered == UNION {tokens[k].start .. tokens[k].end : k \in DOMAIN tokens}
Ignores == \E r \in Rules : rules[r].type = Ignore

(* What is in no token is followed by a white space before the next token  *)
(* or is the end of the text: unfinished text is left out, never the start *)
(* of a line that goes on.                                                 *)
NothingElseLost ==
    ~Ignores =>
        \A p \in (0..(Start - 1)) \ Covered :
            \E q \in p..(Start - 1) : p..q \cap Covered = {} /\ input[q + 1] \in Blanks

(* The room for matches is one per rule, and a line counted is never less  *)
(* than the lines there are: a newline behind a token counts once more.    *)
MatchesFit == Cardinality(validTokens) <= Len(rules)
LineNotBehind == line >= 1 + Cardinality({p \in 0..(Min({index, Len(input)}) - 1) : input[p + 1] = Newline})

(* An exact rule without a text is past its end before it has begun, at    *)
(* the first character, and the loop goes back to where it was.            *)
EmptyRule == \E r \in Rules : rules[r].ruleType = "exact" /\ rules[r].exact = <<>>


(* The call returns, unless a rule is empty: the search always goes on     *)
(* behind a token.                                                         *)
TokenizingEnds == ~EmptyRule => <>(code # "running")
================================================================================
