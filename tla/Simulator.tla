------------------------------- MODULE Simulator -------------------------------
(* The whole program: Startup, and then SmpCache fed from the queue of jobs    *)
(* that Startup has read.                                                      *)
EXTENDS SmpCacheLru

CONSTANT CommandLines    \* bound: which arguments are considered with which files

VARIABLES phase, args, file, constants, position, registers, queue

startVars == <<phase, args, file, constants, position, registers, queue>>

Start == INSTANCE Startup

(* The addresses a job may carry: those of the file's accesses, and the one    *)
(* that main's variable has before the first of them.                          *)
Addresses(f) ==
  {0} \cup {f.lines[k].address : k \in {j \in 1..Len(f.lines) : f.lines[j].kind = "access"}}

(* The arguments are natural numbers (the scripts give no other), a line is of *)
(* the three kinds and an access reads or writes, and the machine below knows  *)
(* the kinds of job and the blocks that a file may lead to.                    *)
ASSUME CommandLineAssumption ==
  /\ {"R", "W", "other"} \subseteq TraceOps
  /\ \A c \in CommandLines : \A a \in c.args, f \in c.files :
       /\ a.size \in Nat /\ a.assoc \in Nat /\ a.lineSize \in Nat
       /\ \A k \in 1..Len(f.lines) :
            /\ f.lines[k].kind \in {"access", "comment", "empty"}
            /\ f.lines[k].kind = "access" => f.lines[k].readWrite \in {"r", "w"}
       /\ Len(f.lines) > 0 =>
            \A x \in Addresses(f) : x \div 2^Start!Log2(a.lineSize) \in Blocks

(* Every line of the file is one job.                                          *)
ProgramInit ==
  /\ \E c \in CommandLines : args \in c.args /\ file \in c.files
  /\ Start!Init /\ Init /\ remaining = Len(file.lines)

(* The geometry that was made is that of the machine below.                    *)
Built ==
  /\ phase = "ready"
  /\ constants.protocol = Protocol /\ constants.numProcessors = N
  /\ constants.numLinesInSet = Assoc
  /\ constants.numSets = NumSets /\ constants.tagMask = TagMask

Load == Start!Next /\ UNCHANGED vars

\* Faulty: the jobs are taken from the other end.
NextJob_Newest == queue[Len(queue)]

NextJob == Head(queue)

(* The job at the head of the queue goes to the cache of its thread.           *)
HandOut ==
  /\ Built /\ queue # <<>>
  /\ NextJob.threadId \in Procs
  /\ Dispatch(NextJob.threadId, NextJob.op, Start!TagOf(NextJob.address))
  /\ queue' = Tail(queue)
  /\ UNCHANGED <<phase, args, file, constants, position, registers>>

(* A thread without a cache: the vector of caches is indexed out of its range, *)
(* and the model ends.                                                         *)
HandOutNowhere ==
  /\ Built /\ pc = "loop" /\ NoJobs /\ queue # <<>>
  /\ NextJob.threadId \notin Procs
  /\ phase' = "undefined"
  /\ UNCHANGED <<vars, args, file, constants, position, registers, queue>>

Run ==
  /\ Built
  /\ \/ Tick \/ Exit \/ Done
     \/ \E p \in Procs : TickServiced(p) \/ TickIdle(p) \/ TickHandles(p)
     \/ BusWaits \/ BusFinish \/ BusIdle
     \/ \E p \in Procs : BusGrant(p)
  /\ UNCHANGED startVars

(* The program has ended, or goes on with a machine of another geometry.       *)
Elsewhere ==
  /\ phase \in {"exited", "undefined"} \/ (phase = "ready" /\ ~Built)
  /\ UNCHANGED <<vars, startVars>>

ProgramNext == Load \/ HandOut \/ HandOutNowhere \/ Run \/ Elsewhere

ProgramSpec ==
  /\ ProgramInit
  /\ [][ProgramNext]_<<vars, startVars>>
  /\ WF_<<vars, startVars>>(ProgramNext)

-------------------------------------------------------------------------------
(* Properties                                                                  *)

(* The geometry made of any arguments: the mask selects among existing sets,   *)
(* and among more than half of them; it takes the low bits of the tag, as      *)
(* SetOf says; the lines fit the cache; and two bytes of one block have one    *)
(* tag, two of different blocks have not.                                      *)
GeometrySound ==
  constants # <<>> =>
    LET c     == constants
        bytes == 0..(2 * args.size)
        block == 2^c.numBytesBits
    IN
    /\ c.tagMask < c.numSets /\ c.numSets < 2 * (c.tagMask + 1)
    /\ c.numSets * c.numLinesInSet * block <= args.size
    /\ \A a \in bytes :
         /\ Start!SetIndex(a) < c.numSets
         /\ Start!SetIndex(a) = Start!TagOf(a) % (c.tagMask + 1)
         /\ Start!TagOf(a + 1) = Start!TagOf(a) <=> (a + 1) % block # 0

(* A line that main reads as it was meant: an access, in a file whose name     *)
(* tells the order of its fields.                                              *)
ReadWell(line) == line.kind = "access" /\ (file.eighth = "c") = (file.order = "threadFirst")

(* The format that begins with a character finds one in any line but an empty  *)
(* one; the other finds nothing where it does not find a thread.               *)
Heard(line) == IF file.eighth = "c" THEN ReadWell(line) ELSE line.kind # "empty"

(* Line n makes the job of the access in line j: its own, or the last that was *)
(* heard, which a line that is not heard repeats.                              *)
StandsFor(n, j) ==
  /\ j \in 1..n /\ ReadWell(file.lines[j])
  /\ \A i \in (j + 1)..n : ~Heard(file.lines[i])

(* What the caches are to do about an access.                                  *)
JobOf(line) ==
  [op |-> IF line.readWrite = "r" THEN "R" ELSE "W",
   address |-> line.address, threadId |-> line.threadId]

HandedOut == position - 1 - Len(queue)

(* Whatever the file, the queue holds, in order, a job for each line read and  *)
(* not yet handed out: that of the access the line stands for, with its own    *)
(* address and thread, and otherwise one that no cache will act on.  So what a *)
(* failed conversion leaves in main's variables makes no third kind of access. *)
JobsAreTheAccesses ==
  /\ remaining + HandedOut = Len(file.lines)
  /\ \A k \in 1..Len(queue) :
       LET n == HandedOut + k IN
       \/ \E j \in 1..n : StandsFor(n, j) /\ queue[k] = JobOf(file.lines[j])
       \/ queue[k].op = "other" /\ \A j \in 1..n : ~StandsFor(n, j)

(* Those of the first n lines that have processor p read ("r") or write ("w"). *)
MakesAccess(k, char, p) ==
  \E j \in 1..k : /\ StandsFor(k, j)
                  /\ file.lines[j].readWrite = char /\ file.lines[j].threadId = p

AccessLines(n, char, p) == {k \in 1..n : MakesAccess(k, char, p)}

(* Whatever the file, when the program returns every processor has read and    *)
(* written once for each line that stands for such an access of its own.       *)
EveryAccessServed ==
  pc = "done" =>
    \A p \in Procs :
      /\ stats[p].numReads = Cardinality(AccessLines(Len(file.lines), "r", p))
      /\ stats[p].numWrites = Cardinality(AccessLines(Len(file.lines), "w", p))

(* The comments of the trace files under traces/ say what the access before    *)
(* them has done: the state a processor's line is in, and how often it has     *)
(* flushed.  A comment holds once its line has been handed out.                *)
CommentsHold ==
  LET k == Len(file.lines) - Len(queue) IN
  Built /\ pc = "loop" /\ NoJobs /\ k > 0 =>
    LET line == file.lines[k] IN
    line.kind = "comment" /\ line.says # <<>> =>
      LET b == Start!TagOf(line.says.address) IN
      /\ Held(line.says.proc, SetOf(b), b) = line.says.state
      /\ stats[line.says.proc].numFlush = line.says.flushes
===============================================================================
