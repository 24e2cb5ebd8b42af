------------------------------ MODULE BootVariable ------------------------------
(***************************************************************************)
(* What power_ctl.go takes from a Boot#### variable.  The firmware keeps   *)
(* there an EFI_LOAD_OPTION: four bytes of attributes, two of a length, a  *)
(* description in UTF-16 that ends with a NUL, and a device path.          *)
(*                                                                         *)
(* A variable is a sequence of bytes, a text one of 16 bit units; a unit   *)
(* that utf16.Decode cannot read is kept as it is.                         *)
(***************************************************************************)
EXTENDS Integers, Sequences, FiniteSetsExt

Byte == 0..255
UInt16 == 0..65535
Unit == UInt16
Header == 6

\* What binary.LittleEndian.Uint16(b[Header + 2 * k - 2:]) returns for k = 1, 2, ...
Units(b) ==
    [k \in 1..((Len(b) - Header) \div 2) |->
        b[Header + 2 * k - 1] + 256 * b[Header + 2 * k]]

UpTo(s, n) == SubSeq(s, 1, n)

\* s up to its first NUL.
UpToNul(s) ==
    LET nul == {k \in 1..Len(s) : s[k] = 0}
    IN IF nul = {} THEN s ELSE UpTo(s, Min(nul) - 1)

\* unicode.IsSpace.
Blank == (9..13) \cup {32, 133, 160, 5760, 8232, 8233, 8239, 8287, 12288} \cup (8192..8202)

\* strings.TrimSpace.
Trim(s) ==
    LET text == {k \in 1..Len(s) : s[k] \notin Blank}
    IN IF text = {} THEN <<>> ELSE SubSeq(s, Min(text), Max(text))

\* strings.Contains.
HasText(s, t) ==
    \E i \in 0..(Len(s) - Len(t)) : SubSeq(s, i + 1, i + Len(t)) = t

HasNul(s) == \E k \in 1..Len(s) : s[k] = 0
Terminated(b) == HasNul(Units(b))

\* Mutant of Panics: the loop goes on to the last byte, which may be half a unit.
PanicsInLoop(b) ==
    Len(b) \in 1..(Header - 1) \/ (b # <<>> /\ Len(b) % 2 = 1 /\ ~Terminated(b))

\* Uint32(b) and Uint16(b[4:]) are out of range.
Panics(b) == Len(b) \in 1..(Header - 1)

Zeros(n) == [i \in 1..n |-> 0]

\* Mutant of Decode: the length of the device path is read as the first unit.
DecodeLength(b) ==
    IF b = <<>> THEN <<>>
    ELSE LET str == <<b[5] + 256 * b[6]>> \o UpTo(Units(b), (Len(b) - Header - 1) \div 2)
         IN IF HasNul(str) THEN UpToNul(str)
            ELSE Trim(str \o Zeros(Len(b) \div 2 - Len(str)))

\* The loop of getBootDesc ends before the last unit; without a NUL in front of that
\* one, the whole of str is returned, with the zeros it was made of.
Decode(b) ==
    IF b = <<>> THEN <<>>
    ELSE LET str == UpTo(Units(b), (Len(b) - Header - 1) \div 2)
         IN IF HasNul(str) THEN UpToNul(str)
            ELSE Trim(str \o Zeros(Len(b) \div 2 - Len(str)))

\* The description as the UEFI specification has it.
Description(b) == UpToNul(Units(b))
================================================================================
