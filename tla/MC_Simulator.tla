------------------------------ MODULE MC_Simulator ------------------------------
(* Simulator on a machine of two processors with one set of three ways.        *)
EXTENDS Simulator, SequencesExt

CONSTANTS MaxSize, MaxLines   \* bounds of the configurations and of the files

Arguments(size, assoc, lineSize, pro) ==
  [size |-> size, assoc |-> assoc, lineSize |-> lineSize, numProc |-> N, pro |-> pro]

Machine == Arguments(6, 3, 2, 0)

Access(op, address, p) ==
  [kind |-> "access", readWrite |-> op, address |-> address, threadId |-> p]

Comment == [kind |-> "comment", says |-> <<>>]

Says(p, state, flushes) ==
  [kind |-> "comment",
   says |-> [proc |-> p, address |-> 8, state |-> state, flushes |-> flushes]]

File(text) == [eighth |-> "M", order |-> "charFirst", lines |-> text]

(* traces/MSItestcomments.trace, with 2, 4 and 6 for its first three addresses *)
(* and 8 for 0x106074800.                                                      *)
MSItestcomments == File(<<
  Access("r", 2, 0), Access("r", 4, 0), Access("r", 4, 0), Access("r", 4, 0),
  Access("r", 6, 0), Access("r", 2, 0), Comment,
  Access("r", 8, 0), Says(0, "shared", 0),
  Access("r", 8, 0), Says(0, "shared", 0),
  Access("w", 8, 0), Says(0, "modified", 0),
  Access("r", 8, 0), Says(0, "modified", 0),
  Access("w", 8, 0), Says(0, "modified", 0),
  Access("r", 8, 1), Says(0, "shared", 1), Says(1, "shared", 0),
  Access("w", 8, 1), Says(0, "invalid", 1), Says(1, "modified", 0),
  Access("w", 8, 0), Says(1, "invalid", 1), Says(0, "modified", 1)>>)

(* Processor 0 fills its set, processor 1 asks for one of the three blocks,    *)
(* then processor 0 needs a place for a fourth.                                *)
Replacements ==
  {File(<<Access("r", 2, 0), Access("r", 4, 0), Access("r", 6, 0),
          Access(op, 2 * b, 1), Access("r", 8, 0), Access("w", 2 * c, 0)>>) :
     op \in {"r", "w"}, b \in 1..3, c \in 1..4}

(* Reads and writes of both processors, at bytes of two blocks; a thread       *)
(* without a cache, a comment, an empty line.                                  *)
Lines ==
  {Access(op, address, p) : op \in {"r", "w"}, address \in {3, 5}, p \in Procs}
  \cup {Access("r", 2, N), Comment, [kind |-> "empty"]}

(* All files of at most n lines with this name and order of fields.            *)
Files(eighth, order, n) ==
  {[eighth |-> eighth, order |-> order, lines |-> text] : text \in BoundedSeq(Lines, n)}

(* Longer files of the usual order, shorter ones of every name and order.      *)
ShortFiles ==
  {Files("M", "charFirst", MaxLines)} \cup
  {Files(e, o, MaxLines - 1) : e \in {"c", "M"}, o \in {"charFirst", "threadFirst"}}

MCCommandLines ==
  {[args |-> {Machine}, files |-> f] : f \in ShortFiles \cup {Replacements, {MSItestcomments}}}
  \cup {[args |-> {Machine, Start!NoArguments}, files |-> {Start!NoFile}]}
  \cup {[args |-> {Arguments(size, assoc, lineSize, pro) : size \in 0..MaxSize, pro \in 0..3},
         files |-> {File(<<>>)}] : assoc \in 0..3, lineSize \in 0..5}
===============================================================================
