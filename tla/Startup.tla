-------------------------------- MODULE Startup --------------------------------
(* What main does before its loop (src/CacheController.cpp): the constructor   *)
(* of CacheConstants makes the machine's geometry of the command line, and the *)
(* trace file becomes the queue of outstanding jobs, one job per line.         *)
EXTENDS Integers, Sequences

(* An argument list is a record of its five numbers, or NoArguments.  A file   *)
(* is NoFile, or the eighth character of its name (main takes the format from  *)
(* it), the order of the fields in it, and its lines: accesses, comments       *)
(* beginning with "//", empty lines.                                           *)
NoArguments == [size |-> 0, assoc |-> 0, lineSize |-> 0, numProc |-> 0, pro |-> 0]
NoFile == [eighth |-> "none", order |-> "none", lines |-> <<>>]

VARIABLES
  phase,           \* "configure", "open", "read", "ready", "exited", "undefined"
  args, file,      \* the command line
  constants,       \* the members of CacheConstants
  position,        \* the next line of the file
  registers,       \* main's readWrite, address and threadId
  queue            \* outstandingRequests

(* args and file are the user's.                                               *)
Init ==
  /\ phase = "configure"
  /\ constants = <<>>
  /\ position = 1
  /\ registers = [readWrite |-> " ", address |-> 0, threadId |-> 0]
  /\ queue = <<>>

-------------------------------------------------------------------------------
(* CacheConstants                                                              *)

(* (int)log2(n) of a positive n.                                               *)
Log2(n) == CHOOSE k \in 0..n : 2^k <= n /\ n < 2^(k + 1)

\* Faulty: one bit too many.
TagMaskOf_TooWide(bits) == 2^(bits + 1) - 1

(* The loop that shifts a one into the mask for each bit of the set index.     *)
TagMaskOf(bits) ==
  LET ones[n \in Nat] == IF n = 0 THEN 0 ELSE 2 * ones[n - 1] + 1 IN ones[bits]

ProtocolOf(pro) ==
  CASE pro = 0 -> "MSI" [] pro = 1 -> "MESI" [] pro = 2 -> "DRAGON" [] OTHER -> "MOESI"

Geometry(a) ==
  LET numSets == a.size \div (a.assoc * a.lineSize)
  IN [protocol      |-> ProtocolOf(a.pro),
      numProcessors |-> a.numProc,
      numLinesInSet |-> a.assoc,
      numBytesBits  |-> Log2(a.lineSize),
      numSets       |-> numSets,
      tagMask       |-> TagMaskOf(Log2(numSets))]

(* Without arguments main prints its usage.                                    *)
Usage ==
  /\ phase = "configure" /\ args = NoArguments
  /\ phase' = "exited"
  /\ UNCHANGED <<args, file, constants, position, registers, queue>>

(* A set of no bytes is divided by.  A cache smaller than one set has no sets, *)
(* and the logarithm of zero is converted to an int.                           *)
Misconfigure ==
  /\ phase = "configure" /\ args # NoArguments
  /\ args.assoc * args.lineSize = 0 \/ args.size < args.assoc * args.lineSize
  /\ phase' = "undefined"
  /\ UNCHANGED <<args, file, constants, position, registers, queue>>

Configure ==
  /\ phase = "configure" /\ args # NoArguments
  /\ args.assoc * args.lineSize # 0 /\ args.size >= args.assoc * args.lineSize
  /\ constants' = Geometry(args)
  /\ phase' = "open"
  /\ UNCHANGED <<args, file, position, registers, queue>>

Bit(x, k) == (x \div 2^k) % 2

(* The bitwise "and" of x and a mask.                                          *)
Masked(x, mask) ==
  CHOOSE y \in 0..mask : \A k \in 0..mask : Bit(y, k) = Bit(x, k) * Bit(mask, k)

(* Cache::decode_address.                                                      *)
TagOf(address) == address \div 2^constants.numBytesBits
SetIndex(address) == Masked(TagOf(address), constants.tagMask)

-------------------------------------------------------------------------------
(* main                                                                        *)

Open ==
  /\ phase = "open"
  /\ phase' = IF file = NoFile THEN "exited" ELSE "read"
  /\ UNCHANGED <<args, file, constants, position, registers, queue>>

\* Faulty: a comment changes nothing, so that it repeats the access before it.
Scanned_NoComments(line) ==
  IF line.kind # "access" THEN <<>>
  ELSE [readWrite |-> line.readWrite, address |-> line.address, threadId |-> line.threadId]

(* What sscanf converts of a line.  It stops at the first field that does not  *)
(* match the format; the format without thread first takes any character.      *)
Scanned(line) ==
  LET threadFirst == file.eighth = "c"
  IN CASE line.kind = "empty" -> <<>>
       [] line.kind = "comment" -> IF threadFirst THEN <<>> ELSE [readWrite |-> "/"]
       [] line.kind = "access" ->
            IF threadFirst = (file.order = "threadFirst")
            THEN [readWrite |-> line.readWrite, address |-> line.address,
                  threadId |-> line.threadId]
            ELSE IF threadFirst THEN <<>> ELSE [readWrite |-> "digit"]

(* CacheJob is given the character less 32 and compares it with 'R' and 'W'.   *)
OpOf(char) == CASE char = "r" -> "R" [] char = "w" -> "W" [] OTHER -> "other"

(* Every line makes a job, of what it changes in main's variables and of what  *)
(* the lines before it have left there.                                        *)
ReadLine ==
  LET found == Scanned(file.lines[position])
      now   == [r \in DOMAIN registers |-> IF r \in DOMAIN found THEN found[r] ELSE registers[r]]
  IN
  /\ phase = "read" /\ position <= Len(file.lines)
  /\ registers' = now
  /\ queue' = Append(queue, [op |-> OpOf(now.readWrite), address |-> now.address,
                             threadId |-> now.threadId])
  /\ position' = position + 1
  /\ UNCHANGED <<phase, args, file, constants>>

(* The caches and the bus are made once the file has been read.                *)
Ready ==
  /\ phase = "read" /\ position > Len(file.lines)
  /\ phase' = "ready"
  /\ UNCHANGED <<args, file, constants, position, registers, queue>>

Next == Usage \/ Misconfigure \/ Configure \/ Open \/ ReadLine \/ Ready
===============================================================================
