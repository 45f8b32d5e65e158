----------------------------- MODULE StreamRead -----------------------------
(***************************************************************************)
(* What the extractions `stream >> field` do, by which the capture program *)
(* (demo/osd.cpp) and the communication service (demo/demo_comm.cpp) read  *)
(* the values of a configuration line.  A word is a number, or NaN: a word *)
(* that begins with none.  Fields that are read one after the other are a  *)
(* sequence, and so are the words of a line.                               *)
(*                                                                         *)
(* An extraction fails when there is no word left, and leaves its field;   *)
(* on a word that is no number it stores 0 and fails; after a failure the  *)
(* stream stores nothing more.                                             *)
(***************************************************************************)
EXTENDS Integers, Sequences

NaN == -1000000

\* The first `to` words are numbers.
AllNumbers(words, to) == \A j \in 1..to : words[j] # NaN

\* A variant that goes on after a word that is no number.
ReadNumbersOn(old, words) ==
  [i \in DOMAIN old |->
     IF i <= Len(words)
     THEN IF words[i] = NaN THEN 0 ELSE words[i]
     ELSE old[i]]

ReadNumbers(old, words) ==
  [i \in DOMAIN old |->
     IF i <= Len(words) /\ AllNumbers(words, i - 1)
     THEN IF words[i] = NaN THEN 0 ELSE words[i]
     ELSE old[i]]

\* A bool: any number but 0 and 1 stores true and fails.
ReadFlag(old, words) ==
  IF words = << >> THEN old
  ELSE IF words[1] \in {NaN, 0} THEN <<0>> ELSE <<1>>

\* A std::string is the words it holds.
ReadWord(old, words) == IF words = << >> THEN old ELSE <<words[1]>>

(***************************************************************************)
(* n *= 1000000 in a 32-bit int, for 0 <= n < 2^31.  With the 16-bit       *)
(* halves of n, 1000000 = 15 * 65536 + 16960, and two's complement         *)
(* wrap-around as the build gives it.                                      *)
(***************************************************************************)
Micros(n) ==
  LET s    == n % 65536
      low  == s * 16960
      sum  == s * 15 + (n \div 65536) * 16960 + low \div 65536
      high == sum % 65536
  IN  (IF high < 32768 THEN high ELSE high - 65536) * 65536 + (low % 65536)
=============================================================================
