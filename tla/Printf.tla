----------------------------------- MODULE Printf -----------------------------------
(***************************************************************************)
(* src/string/avPrintf.c: a format read one character per step into a      *)
(* stream.  The characters a step prints are due, and put one by one       *)
(* before the next step.  An argument is any value of its type.            *)
(***************************************************************************)
EXTENDS Streams, FiniteSets, SequencesExt

CONSTANTS Bits,        (* Bits[w]: of a value, for the lengths hh h - l ll  *)
          Widths,      (* digits of a width in a format                     *)
          MaxWidth,    (* bound: a field's width, within printfUint's buffer *)
          MaxFormat    (* bound: characters of a format                     *)

VARIABLES state,       (* PRINTF_STATE_NORMAL or PRINTF_STATE_VALUE         *)
          props,       (* the width, padding and length read so far         *)
          due,         (* characters of the step that are not put yet       *)
          formatted,   (* characters of the format read                     *)
          field        (* the last conversion: its argument and its text    *)

printfVars == <<streamVars, state, props, due, formatted, field>>

NoProps == [width |-> 0, zero |-> FALSE, length |-> 0]
NoField == [type |-> "none"]
Modulus(length) == 2 ^ Bits[length]
DigitChars == <<"0", "1", "2", "3", "4", "5", "6", "7", "8", "9", "a", "b", "c", "d", "e", "f">>
Digits(value, base) ==
    LET Written[n \in Nat] == IF n < base THEN <<DigitChars[n + 1]>>
                              ELSE Append(Written[n \div base], DigitChars[(n % base) + 1])
    IN  Written[value]
Repeated(c, n) == [i \in 1..n |-> c]

(* numberOfCharacters divides logarithms: a power of the base from the     *)
(* second on may come out below its exponent, one digit short, and what is *)
(* just below a power may be rounded up to it, and have one digit more.    *)
NumberWidths(value, base) ==
    LET digits == Len(Digits(value, base))
    IN  {digits} \cup (IF digits > 2 /\ value = base ^ (digits - 1) THEN {digits - 1} ELSE {})
                 \cup (IF digits > 2 /\ value = base ^ digits - 1 THEN {digits + 1} ELSE {})

(* printfUint *)
PrintedUint(value, base, negative, numberWidth) ==
    LET sign == IF negative THEN <<"-">> ELSE <<>>
        padding == Max({props.width - numberWidth - Len(sign), 0})
    IN  IF props.zero THEN sign \o Repeated("0", padding) \o Digits(value, base)
                      ELSE Repeated(" ", padding) \o sign \o Digits(value, base)

(* interpretIntValue: what is half of the length's range or more prints as *)
(* negative.                                                               *)
Interpreted(argument) ==
    LET value == argument % Modulus(2)
        halfway == Modulus(props.length) \div 2
    IN  IF value >= halfway THEN [negative |-> TRUE, value |-> (Modulus(2) - value) % halfway]
                            ELSE [negative |-> FALSE, value |-> value]

(* va_arg takes an int, unless the length is that of a long.               *)
Taken == IF props.length = 2 THEN 2 ELSE 0
Signed == -(Modulus(Taken) \div 2) .. (Modulus(Taken) \div 2 - 1)

PrintfInit ==
    /\ StreamInit
    /\ state = "normal"
    /\ props = NoProps
    /\ due = <<>>
    /\ formatted = 0
    /\ field = NoField

PutDue ==
    /\ due # <<>>
    /\ PutC(Head(due))
    /\ due' = Tail(due)
    /\ field' = NoField
    /\ UNCHANGED <<state, props, formatted>>

Reading(s) == due = <<>> /\ formatted < MaxFormat /\ state = s /\ formatted' = formatted + 1

PrintPlain ==
    /\ Reading("normal")
    /\ due' = <<"x">>
    /\ UNCHANGED <<streamVars, state, props, field>>
BeginValue ==
    /\ Reading("normal")
    /\ state' = "value"
    /\ props' = NoProps
    /\ UNCHANGED <<streamVars, due, field>>

(* processValue, for the characters that do not end a conversion; another  *)
(* character is passed over.                                               *)
Clamped(length) == Min({Max({length, -2}), 2})
ReadProps ==
    /\ Reading("value")
    /\ \/ props.width = 0 /\ props' = [props EXCEPT !.zero = TRUE]
       \/ \E digit \in Widths : /\ props.width * 10 + digit <= MaxWidth
                                /\ props' = [props EXCEPT !.width = @ * 10 + digit]
       \/ \E step \in {-1, 1} : props' = [props EXCEPT !.length = Clamped(@ + step)]
       \/ UNCHANGED props
    /\ UNCHANGED <<streamVars, state, due, field>>

Converts(type, argument, text) ==
    /\ Reading("value")
    /\ state' = "normal"
    /\ due' = text
    /\ field' = [type |-> type, argument |-> argument, props |-> props, text |-> text]
    /\ UNCHANGED <<streamVars, props>>

(* %i; "%%" prints its character and is then an %i too.                    *)
ConvertInt ==
    \E argument \in Signed, percent \in BOOLEAN :
        LET v == Interpreted(argument)
        IN  \E w \in NumberWidths(v.value, 10) :
                LET text == PrintedUint(v.value, 10, v.negative, w)
                IN  IF percent THEN Converts("percent", argument, <<"%">> \o text)
                               ELSE Converts("int", argument, text)
(* %u, %x and %b; %p is %016x.                                             *)
ConvertUint ==
    \E argument \in 0..(Modulus(Taken) - 1), base \in {2, 10, 16} :
        \E w \in NumberWidths(argument, base) :
            Converts("uint", argument, PrintedUint(argument, base, FALSE, w))
(* %c, and %s and %S of that many characters.                              *)
ConvertText ==
    \E n \in 0..2 :
        Converts("text", n, Repeated(" ", Max({props.width - n, 0})) \o Repeated("c", n))

(* avStringPrintfToFileDescriptor and avStringPrintfToBuffer end with it.  *)
EndPrint ==
    /\ due = <<>> /\ formatted > 0
    /\ IF discard THEN Flush ELSE UNCHANGED streamVars
    /\ formatted' = MaxFormat
    /\ UNCHANGED <<state, props, due, field>>

PrintfNext ==
    \/ PutDue \/ PrintPlain \/ BeginValue \/ ReadProps
    \/ ConvertInt \/ ConvertUint \/ ConvertText
    \/ EndPrint

--------------------------------------------------------------------------------

(* avStringScanf with %i and %u over a whole string: the first character   *)
(* is the sign or is lost, and what is no digit is passed over.            *)
DigitsIn(s) == SelectSeq(s, LAMBDA c : c \in ToSet(SubSeq(DigitChars, 1, 10)))
Number(s) == FoldLeft(LAMBDA n, c : 10 * n + (CHOOSE d \in 0..9 : DigitChars[d + 1] = c), 0, DigitsIn(s))
ScanInt(s) == IF s[1] = "-" THEN -Number(Tail(s)) ELSE Number(Tail(s))
ScanUint(s) == Number(s)

(* A field is as wide as the format asks, and no wider than its text; next *)
(* to a power of its base a number may be wider or narrower by one.        *)
Width(f) == Len(f.text)
FieldIsWide ==
    field.type \in {"int", "uint", "text"} =>
        /\ Width(field) >= field.props.width - (IF field.type = "text" THEN 0 ELSE 1)
        /\ Width(field) > field.props.width + 1 => field.text[1] # " "

(* An int that has its length prints as itself, and scans as itself when   *)
(* something is in front of its digits.  The least value of a length       *)
(* prints as "-0", and is left out.                                        *)
InLength(f) == f.argument \in -(Modulus(f.props.length) \div 2 - 1) .. (Modulus(f.props.length) \div 2 - 1)
IntReadsBack ==
    field.type = "int" /\ InLength(field) =>
        /\ ("-" \in ToSet(field.text)) = (field.argument < 0)
        /\ ScanUint(field.text) = IF field.argument < 0 THEN -field.argument ELSE field.argument
        /\ field.text[1] = "-" => ScanInt(field.text) = field.argument
        /\ field.text[1] = " " /\ field.argument > 0 => ScanInt(field.text) = field.argument

PrintSound == FieldIsWide /\ IntReadsBack
================================================================================
