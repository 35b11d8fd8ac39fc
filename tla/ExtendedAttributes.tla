------------------------- MODULE ExtendedAttributes -------------------------
(***************************************************************************)
(* The FILE_FULL_EA_INFORMATION codec of ea.go.  A buffer is a sequence of *)
(* bytes; of an entry's header of 8 bytes, the first three hold the offset *)
(* of the next entry and the lengths of name and value, whatever they are. *)
(***************************************************************************)
EXTENDS Naturals, Sequences, SequencesExt

fileFullEaInformationSize == 8

Zeros(n) == [k \in 1..n |-> 0]

Padded(n) == ((n + 3) \div 4) * 4

(* writeEa's refusals: lengths that do not fit their fields.               *)
EaTooLarge(ea) == Len(ea.name) >= 2 ^ 8 \/ Len(ea.value) >= 2 ^ 16

(* writeEa: header, name, 0, value, and zeros up to a multiple of 4.       *)
writeEa(ea, last) ==
  LET entrySize == fileFullEaInformationSize + Len(ea.name) + 1 + Len(ea.value)
      next      == IF last THEN 0 ELSE Padded(entrySize)
  IN  <<next, Len(ea.name), Len(ea.value)>> \o Zeros(fileFullEaInformationSize - 3)
        \o ea.name \o <<0>> \o ea.value \o Zeros(Padded(entrySize) - entrySize)

EncodeExtendedAttributes(eas) ==
  IF \E k \in DOMAIN eas : EaTooLarge(eas[k]) THEN [ok |-> FALSE, bytes |-> <<>>]
  ELSE [ok |-> TRUE, bytes |-> FlattenSeq([k \in DOMAIN eas |-> writeEa(eas[k], k = Len(eas))])]

(* parseEa's checks of the entry at the head of b.                         *)
ValidEa(b) ==
  /\ Len(b) >= fileFullEaInformationSize
  /\ fileFullEaInformationSize + b[2] + 1 + b[3] <= Len(b)
  /\ b[1] <= Len(b)

(* DecodeExtendedAttributes: parseEa until no buffer is left; an invalid   *)
(* entry fails it all.                                                     *)
RECURSIVE DecodeExtendedAttributes(_)
DecodeExtendedAttributes(b) ==
  IF b = <<>> THEN [ok |-> TRUE, eas |-> <<>>]
  ELSE IF ~ValidEa(b) THEN [ok |-> FALSE, eas |-> <<>>]
  ELSE LET value == fileFullEaInformationSize + b[2] + 1
           ea    == [name  |-> SubSeq(b, fileFullEaInformationSize + 1,
                                      fileFullEaInformationSize + b[2]),
                     value |-> SubSeq(b, value + 1, value + b[3])]
           rest  == DecodeExtendedAttributes(
                      IF b[1] = 0 THEN <<>> ELSE SubSeq(b, b[1] + 1, Len(b)))
       IN  [ok |-> rest.ok, eas |-> IF rest.ok THEN <<ea>> \o rest.eas ELSE <<>>]
=============================================================================
