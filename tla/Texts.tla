-------------------------------- MODULE Texts --------------------------------
(***************************************************************************)
(* The texts of the environment: a text is a sequence of atoms, the marks  *)
(* it is taken apart at and what stands between them.                      *)
(***************************************************************************)
EXTENDS Integers, FiniteSetsExt, SequencesExt

CONSTANT None      \* no text, and what could not be read

\* The marks that a list and a blank text are known by.
Comma == ","
Space == " "

OrElse(a, b) == IF a # None THEN a ELSE b

Join(fields, mark) ==
  FlattenSeq([k \in DOMAIN fields |-> IF k = 1 THEN fields[1] ELSE <<mark>> \o fields[k]])

\* str::split: every mark ends a field and begins another.
Split(text, mark) ==
  LET upto[n \in 0..Len(text)] ==
        IF n = 0 THEN <<<<>>>>
        ELSE LET fields == upto[n - 1]
             IN  IF text[n] = mark THEN Append(fields, <<>>)
                 ELSE Append(Front(fields), Append(Last(fields), text[n]))
  IN  upto[Len(text)]

Trim(text) ==
  LET ink == {i \in DOMAIN text : text[i] # Space}
  IN  IF ink = {} THEN <<>> ELSE SubSeq(text, Min(ink), Max(ink))

TrimEach(fields) == [k \in DOMAIN fields |-> Trim(fields[k])]

\* The fields that are not empty.
Filled(fields) ==
  LET upto[n \in 0..Len(fields)] ==
        IF n = 0 THEN <<>>
        ELSE IF fields[n] = <<>> THEN upto[n - 1]
        ELSE Append(upto[n - 1], fields[n])
  IN  upto[Len(fields)]

SplitCsv(text) == Filled(TrimEach(Split(text, Comma)))
=============================================================================
