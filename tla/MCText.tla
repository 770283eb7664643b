--------------------------------- MODULE MCText ---------------------------------
(***************************************************************************)
(* The components that work on text, checked in one run: the subject is    *)
(* chosen at the start, and the others stay as they are.                   *)
(***************************************************************************)
EXTENDS Strings, Paths, Regex, Tokenizer, Printf

VARIABLE subject

LowerAndUpper == [c \in Chars \cup {Zero} |-> IF c = "a" THEN "A" ELSE c]
ScaledBits == [length \in -2..2 |-> <<2, 3, 4, 4, 5>>[length + 3]]

Exact(text, type) ==
    [ruleType |-> "exact", exact |-> text, type |-> type,
     startsWith |-> <<>>, endsWith |-> <<>>, text |-> {}, useEscape |-> FALSE]
Of(set, type) == [Exact(<<>>, type) EXCEPT !.ruleType = "validChars", !.text = set]
Quoted(type) == [Of({}, type) EXCEPT !.startsWith = <<"q">>, !.endsWith = <<"q">>, !.useEscape = TRUE]
(* A word that is a name too, one word in another, strings beside names    *)
(* and what is ignored, and a rule without a text.                         *)
FourLanguages ==
    {<<Exact(<<"a", "b">>, "word"), Of({"a", "b"}, "name"), Exact(<<"q">>, "sign")>>,
     <<Exact(<<"a">>, "a"), Exact(<<"a", "b", "a">>, "aba"), Exact(<<"b">>, "b"), Exact(<<"b">>, "b")>>,
     <<Quoted("string"), Of({"a"}, "name"), Exact(<<"b">>, Ignore)>>,
     <<Exact(<<>>, Ignore), Exact(<<"a", "b">>, "ab")>>}
NewlineEscape == [c \in {"n"} |-> "newline"]

textVars == <<subject, stringVars, path, regexVars, tokenVars, printfVars>>

(* Only the subject starts in all of its initial states.                   *)
TextInit ==
    /\ subject \in {"string", "path", "regex", "tokens", "printf"}
    /\ IF subject = "string" THEN StringInit
       ELSE data = <<>> /\ at = 0 /\ len = 0 /\ held = FALSE
    /\ IF subject = "path" THEN PathInit
       ELSE path = [absolute |-> TRUE, segments |-> <<>>, closed |-> FALSE]
    /\ RegexInit
    /\ IF subject = "tokens" THEN TokenizerInit
       ELSE /\ rules = <<>> /\ input = <<Terminator>> /\ index = 0 /\ tokenStart = Unset /\ line = 1
            /\ ruleStates = <<>> /\ validTokens = {} /\ tokens = <<>> /\ code = "ok"
    /\ IF subject = "printf" THEN PrintfInit
       ELSE /\ size = 1 /\ discard = FALSE /\ buffer = <<>> /\ written = <<>> /\ offered = <<>>
            /\ totalSize = 0 /\ short = FALSE
            /\ state = "normal" /\ props = NoProps /\ due = <<>> /\ formatted = 0 /\ field = NoField

TextNext ==
    /\ UNCHANGED subject
    /\ \/ subject = "string" /\ StringNext /\ UNCHANGED <<path, regexVars, tokenVars, printfVars>>
       \/ subject = "path" /\ PathNext /\ UNCHANGED <<stringVars, regexVars, tokenVars, printfVars>>
       \/ subject = "regex" /\ RegexNext /\ UNCHANGED <<stringVars, path, tokenVars, printfVars>>
       \/ subject = "tokens" /\ TokenizerNext /\ UNCHANGED <<stringVars, path, regexVars, printfVars>>
       \/ subject = "printf" /\ PrintfNext /\ UNCHANGED <<stringVars, path, regexVars, tokenVars>>

(* No tokenizer runs when it is not the subject.                           *)
TextSpec == TextInit /\ [][TextNext]_textVars /\ TokenizerFairness

(* What is searched for, split and replaced, where paths lead, and what an *)
(* expression matches; each part is stated in its module.                  *)
TextSound ==
    CASE subject = "string" -> StringsSound
      [] subject = "path" -> PathSound
      [] subject = "regex" -> RegexSound
      [] OTHER -> TRUE
(* What is printed arrives, and reads back.                                *)
PrintedSound == StreamSound /\ PrintSound
================================================================================
