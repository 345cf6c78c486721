---------------------------- MODULE Simulator_proofs ----------------------------
(* The whole program runs the machine that the other proofs are about, so that *)
(* what they say holds of it from the command line on; the queue gives that    *)
(* machine the accesses of the file; and its geometry is sound.                *)
EXTENDS Simulator, SmpCacheCounts_proofs, SmpCacheLru_proofs

-------------------------------------------------------------------------------
(* The invariant of start-up                                                   *)

Threads(f) ==
  {0} \cup {f.lines[k].threadId : k \in {j \in 1..Len(f.lines) : f.lines[j].kind = "access"}}

Jobs(f) == [op : {"R", "W", "other"}, address : Addresses(f), threadId : Threads(f)]

FileLength == Len(file.lines)

CommandLineGiven ==
  /\ \E c \in CommandLines : args \in c.args /\ file \in c.files
  /\ FileLength \in Nat

(* Between the constructor and the end there is a geometry.                    *)
Configured ==
  /\ phase \in {"configure", "open", "read", "ready", "exited", "undefined"}
  /\ phase \in {"open", "read", "ready"} => constants = Start!Geometry(args)

(* main's variables hold what some line of the file has left in them.          *)
RegistersTyped ==
  /\ DOMAIN registers = {"readWrite", "address", "threadId"}
  /\ registers.address \in Addresses(file) /\ registers.threadId \in Threads(file)

(* A job names what some line of the file does, and as many jobs are left as   *)
(* main's loop believes.                                                       *)
QueueTyped ==
  /\ position \in 1..(FileLength + 1)
  /\ queue \in Seq(Jobs(file)) /\ HandedOut \in Nat
  /\ remaining \in Nat /\ remaining + HandedOut = FileLength

StartInv == CommandLineGiven /\ Configured /\ RegistersTyped /\ QueueTyped

(* It holds before the constructor runs, ...                                   *)
LEMMA InitStartInv == ProgramInit => StartInv
<1> SUFFICES ASSUME ProgramInit PROVE StartInv
  OBVIOUS
<1>1. remaining \in Nat
  BY SizeAssumption DEF ProgramInit, Init
<1>2. /\ \E c \in CommandLines : args \in c.args /\ file \in c.files
      /\ remaining = FileLength /\ phase = "configure" /\ position = 1 /\ queue = <<>>
  BY DEF ProgramInit, Start!Init, FileLength
<1>3. FileLength \in Nat
  BY <1>1, <1>2
<1>4. CommandLineGiven /\ Configured
  BY <1>2, <1>3 DEF CommandLineGiven, Configured
<1>5. RegistersTyped
  BY DEF ProgramInit, Start!Init, RegistersTyped, Addresses, Threads
<1>6. queue \in Seq(Jobs(file))
  BY <1>2, EmptySeq
<1>7. HandedOut = 0
  <2>1. position = 1 /\ Len(queue) = 0
    BY <1>2, EmptySeq
  <2> QED BY <2>1 DEF HandedOut
<1>8. QueueTyped
  BY <1>1, <1>2, <1>3, <1>6, <1>7 DEF QueueTyped
<1> QED BY <1>4, <1>5, <1>8 DEF StartInv

(* What a line's conversion finds, it finds in an access.                      *)
LEMMA ScannedFields ==
  ASSUME CommandLineGiven, NEW k \in 1..FileLength
  PROVE  LET line == file.lines[k]
             found == Start!Scanned(line)
         IN /\ line.kind \in {"access", "comment", "empty"}
            /\ line.kind = "access" => line.readWrite \in {"r", "w"}
            /\ "address" \in DOMAIN found =>
                 line.kind = "access" /\ found["address"] = line.address
            /\ "threadId" \in DOMAIN found =>
                 line.kind = "access" /\ found["threadId"] = line.threadId
<1>1. /\ file.lines[k].kind \in {"access", "comment", "empty"}
      /\ file.lines[k].kind = "access" => file.lines[k].readWrite \in {"r", "w"}
  BY CommandLineAssumption DEF CommandLineGiven, FileLength
<1> QED BY <1>1 DEF Start!Scanned

(* A line read makes one job more, of what the conversion has left.            *)
LEMMA ReadLineKeeps ==
  ASSUME StartInv, Start!ReadLine, UNCHANGED vars
  PROVE  StartInv'
<1> DEFINE found == Start!Scanned(file.lines[position])
           now   == [r \in DOMAIN registers |->
                      IF r \in DOMAIN found THEN found[r] ELSE registers[r]]
           job   == [op |-> Start!OpOf(now.readWrite), address |-> now.address,
                     threadId |-> now.threadId]
<1>1. /\ phase = "read" /\ position <= FileLength
      /\ registers' = now /\ queue' = Append(queue, job) /\ position' = position + 1
      /\ UNCHANGED <<phase, args, file, constants>>
  BY DEF Start!ReadLine, FileLength
<1>2. position \in 1..FileLength
  BY <1>1 DEF StartInv, QueueTyped, CommandLineGiven
<1> HIDE DEF found
<1>3. now.address \in Addresses(file) /\ now.threadId \in Threads(file)
  BY <1>2, ScannedFields DEF StartInv, RegistersTyped, Addresses, Threads, FileLength, found
<1>4. DOMAIN now = {"readWrite", "address", "threadId"}
  BY DEF StartInv, RegistersTyped
<1> HIDE DEF now
<1>5. job \in Jobs(file)
  BY <1>3 DEF Jobs, Start!OpOf
<1> HIDE DEF job
<1>6. CommandLineGiven' /\ Configured' /\ RegistersTyped' /\ FileLength' = FileLength
  BY <1>1, <1>3, <1>4 DEF StartInv, CommandLineGiven, Configured, RegistersTyped, FileLength
<1>7. queue' \in Seq(Jobs(file)) /\ Len(queue') = Len(queue) + 1
  BY <1>1, <1>5, AppendProperties DEF StartInv, QueueTyped
<1>8. QueueTyped'
  BY <1>1, <1>2, <1>6, <1>7 DEF StartInv, CommandLineGiven, QueueTyped, HandedOut, vars
<1> QED BY <1>6, <1>8 DEF StartInv

(* ... and every step of start-up keeps it.                                    *)
LEMMA LoadKeeps == StartInv /\ Load => StartInv'
<1> SUFFICES ASSUME StartInv, Start!Next, UNCHANGED vars PROVE StartInv'
  BY DEF Load
<1>1. CASE Start!ReadLine
  BY <1>1, ReadLineKeeps
<1>2. CASE Start!Usage \/ Start!Misconfigure \/ Start!Configure \/ Start!Open \/ Start!Ready
  <2>1. UNCHANGED <<args, file, position, registers, queue, remaining>> /\ Configured'
    BY <1>2 DEF StartInv, Configured, vars, Start!Usage, Start!Misconfigure,
       Start!Configure, Start!Open, Start!Ready
  <2> QED BY <2>1 DEF StartInv, CommandLineGiven, RegistersTyped, QueueTyped, HandedOut, FileLength
<1> QED BY <1>1, <1>2 DEF Start!Next

-------------------------------------------------------------------------------
(* Every step of the program is one of the machine, or none                    *)

(* The job at the head of the queue is one the machine may be given.           *)
LEMMA HeadOfQueue ==
  ASSUME StartInv, Built, queue # <<>>
  PROVE  /\ NextJob \in Jobs(file)
         /\ NextJob.op \in TraceOps /\ Start!TagOf(NextJob.address) \in Blocks
<1>1. NextJob \in Jobs(file) /\ Len(queue) \in Nat \ {0}
  BY HeadTailProperties, EmptySeq DEF StartInv, QueueTyped, NextJob
<1>2. NextJob.op \in TraceOps /\ NextJob.address \in Addresses(file)
  BY <1>1, CommandLineAssumption DEF Jobs
<1>3. FileLength > 0
  BY <1>1 DEF StartInv, QueueTyped, HandedOut, CommandLineGiven
<1>4. constants.numBytesBits = Start!Log2(args.lineSize)
  BY DEF StartInv, Configured, Built, Start!Geometry
<1>5. Start!TagOf(NextJob.address) \in Blocks
  BY <1>2, <1>3, <1>4, CommandLineAssumption
    DEF StartInv, CommandLineGiven, Start!TagOf, FileLength
<1> QED BY <1>1, <1>2, <1>5

(* Handing a job out is a Dispatch; start-up takes no step of the machine.     *)
LEMMA ProgramSteps ==
  ASSUME StartInv, [ProgramNext]_<<vars, startVars>>
  PROVE  [Next]_vars
<1>1. CASE HandOut
  BY <1>1, HeadOfQueue DEF HandOut, Next
<1>2. CASE Run
  BY <1>2 DEF Run, Next
<1>3. CASE Load \/ HandOutNowhere \/ Elsewhere \/ UNCHANGED <<vars, startVars>>
  BY <1>3 DEF Load, HandOutNowhere, Elsewhere
<1> QED BY <1>1, <1>2, <1>3 DEF ProgramNext

(* The machine's steps keep the invariant of start-up too.                     *)
LEMMA NextStartInv == StartInv /\ [ProgramNext]_<<vars, startVars>> => StartInv'
<1> SUFFICES ASSUME StartInv, [ProgramNext]_<<vars, startVars>> PROVE StartInv'
  OBVIOUS
<1>1. CASE Load
  BY <1>1, LoadKeeps
<1>2. CASE HandOut
  <2>1. /\ queue # <<>> /\ queue' = Tail(queue)
        /\ remaining > 0 /\ remaining' = remaining - 1
        /\ UNCHANGED <<phase, args, file, constants, position, registers>>
    BY <1>2 DEF HandOut, Dispatch
  <2>2. queue' \in Seq(Jobs(file)) /\ Len(queue') = Len(queue) - 1 /\ Len(queue) \in Nat
    BY <2>1, HeadTailProperties DEF StartInv, QueueTyped
  <2>3. HandedOut' = HandedOut + 1 /\ FileLength' = FileLength
    BY <2>1, <2>2 DEF StartInv, CommandLineGiven, QueueTyped, HandedOut, FileLength
  <2>4. QueueTyped'
    BY <2>1, <2>2, <2>3, SizeAssumption DEF StartInv, CommandLineGiven, QueueTyped
  <2> QED BY <2>1, <2>3, <2>4 DEF StartInv, CommandLineGiven, Configured, RegistersTyped
<1>3. CASE HandOutNowhere \/ Run \/ Elsewhere \/ UNCHANGED <<vars, startVars>>
  <2>1. /\ UNCHANGED <<args, file, constants, position, registers, queue, remaining>>
        /\ phase' \in {phase, "undefined"}
    BY <1>3 DEF HandOutNowhere, Run, Elsewhere, startVars, vars, Tick, Exit, Done, Ticks,
       TickServiced, TickIdle, TickHandles, BusWaits, BusFinish, BusIdle, BusGrant
  <2> QED BY <2>1 DEF StartInv, CommandLineGiven, Configured, RegistersTyped, QueueTyped,
              HandedOut, FileLength
<1> QED BY <1>1, <1>2, <1>3 DEF ProgramNext

(* From main's first line on, the program does to the machine nothing but what *)
(* SmpCache specifies: start-up and the queue only choose among its steps.     *)
THEOREM ProgramRunsTheMachine == ProgramSpec => Init /\ [][Next]_vars
<1>1. ProgramInit => Init
  BY DEF ProgramInit
<1>2. StartInv /\ [ProgramNext]_<<vars, startVars>> => [Next]_vars
  BY ProgramSteps
<1> QED BY <1>1, <1>2, InitStartInv, NextStartInv, PTL DEF ProgramSpec

-------------------------------------------------------------------------------
(* The queue holds the accesses of the file                                    *)

(* What main's variables would make of a job, and what line n is to make.      *)
JobIn(r) ==
  [op |-> Start!OpOf(r.readWrite), address |-> r.address, threadId |-> r.threadId]

Matches(job, n) ==
  \/ \E j \in 1..n : StandsFor(n, j) /\ job = JobOf(file.lines[j])
  \/ job.op = "other" /\ \A j \in 1..n : ~StandsFor(n, j)

(* main's variables are as the last line read has left them.                   *)
QueueMatches ==
  /\ Matches(JobIn(registers), position - 1)
  /\ \A k \in 1..Len(queue) : Matches(queue[k], HandedOut + k)

(* A line stands for one access at most.                                       *)
LEMMA OneStandsFor ==
  ASSUME NEW n \in Nat, NEW j, NEW k, StandsFor(n, j), StandsFor(n, k)
  PROVE  j = k
<1>1. ReadWell(file.lines[j]) /\ ReadWell(file.lines[k]) /\ j \in 1..n /\ k \in 1..n
  BY DEF StandsFor
<1>2. \A line : ReadWell(line) => Heard(line)
  BY DEF ReadWell, Heard
<1>3. ~(j < k) /\ ~(k < j)
  BY <1>1, <1>2 DEF StandsFor
<1> QED BY <1>1, <1>3

(* The job that a line makes is that of the access it stands for, if the lines *)
(* before it have left main's variables as they should.                        *)
LEMMA LineMakesItsJob ==
  ASSUME CommandLineGiven, NEW k \in 1..FileLength, NEW old,
         DOMAIN old = {"readWrite", "address", "threadId"},
         Matches(JobIn(old), k - 1),
         NEW found, found = Start!Scanned(file.lines[k]),
         NEW now, now = [r \in DOMAIN old |-> IF r \in DOMAIN found THEN found[r] ELSE old[r]]
  PROVE  Matches(JobIn(now), k)
<1> DEFINE line == file.lines[k]
<1>1. /\ line.kind \in {"access", "comment", "empty"}
      /\ line.kind = "access" => line.readWrite \in {"r", "w"}
  BY ScannedFields
<1>2. k \in Nat \ {0} /\ FileLength \in Nat
  BY DEF CommandLineGiven
<1>3. CASE ReadWell(line)
  <2>1. found = [readWrite |-> line.readWrite, address |-> line.address,
                 threadId |-> line.threadId]
    BY <1>3 DEF Start!Scanned, ReadWell
  <2>2. now.readWrite = line.readWrite /\ now.address = line.address
        /\ now.threadId = line.threadId
    BY <2>1
  <2>3. JobIn(now) = JobOf(line)
    BY <1>1, <1>3, <2>2 DEF JobIn, JobOf, Start!OpOf, ReadWell
  <2>4. StandsFor(k, k)
    BY <1>2, <1>3 DEF StandsFor
  <2> QED BY <1>2, <2>3, <2>4 DEF Matches
<1>4. CASE Heard(line) /\ ~ReadWell(line)
  <2>1. found \in {[readWrite |-> "/"], [readWrite |-> "digit"]}
    BY <1>1, <1>4 DEF Start!Scanned, ReadWell, Heard
  <2>2. now.readWrite \in {"/", "digit"}
    BY <2>1
  <2>3. JobIn(now).op = "other"
    BY <2>2 DEF JobIn, Start!OpOf
  <2>4. ASSUME NEW j \in 1..k, StandsFor(k, j) PROVE FALSE
    <3>1. CASE j = k
      BY <1>4, <2>4, <3>1 DEF StandsFor
    <3>2. CASE j # k
      <4>1. k \in (j + 1)..k
        BY <1>2, <3>2
      <4> QED BY <1>4, <2>4, <4>1 DEF StandsFor
    <3> QED BY <3>1, <3>2
  <2> QED BY <2>3, <2>4 DEF Matches
<1>5. CASE ~Heard(line)
  <2>1. ~ReadWell(line)
    BY <1>5 DEF Heard, ReadWell
  <2>2. found = <<>>
    BY <1>1, <1>5, <2>1 DEF Start!Scanned, ReadWell, Heard
  <2>3. DOMAIN found = {}
    BY <2>2
  <2>4. JobIn(now) = JobIn(old)
    BY <2>3 DEF JobIn
  <2>5. ASSUME NEW j \in 1..k PROVE StandsFor(k, j) <=> j \in 1..(k - 1) /\ StandsFor(k - 1, j)
    <3>1. CASE j = k
      BY <1>2, <2>1, <3>1 DEF StandsFor
    <3>2. CASE j # k
      <4>1. j \in 1..(k - 1) /\ (j + 1)..k = ((j + 1)..(k - 1)) \cup {k}
        BY <1>2, <3>2
      <4> QED BY <1>5, <4>1 DEF StandsFor
    <3> QED BY <3>1, <3>2
  <2>6. \A j \in 1..(k - 1) : j \in 1..k
    BY <1>2
  <2> QED BY <2>4, <2>5, <2>6 DEF Matches
<1> QED BY <1>3, <1>4, <1>5

(* Before the first line nothing has been read, ...                            *)
LEMMA InitQueueMatches == Start!Init => QueueMatches
<1> SUFFICES ASSUME Start!Init PROVE QueueMatches
  OBVIOUS
<1>1. position = 1 /\ Len(queue) = 0
  BY EmptySeq DEF Start!Init
<1>2. JobIn(registers).op = "other"
  BY DEF JobIn, Start!OpOf, Start!Init
<1>3. position - 1 = 0 /\ 1..Len(queue) = 1..0 /\ \A k \in 1..0 : FALSE
  BY ONLY <1>1
<1>4. Matches(JobIn(registers), 0)
  BY <1>2, <1>3 DEF Matches
<1> QED BY <1>3, <1>4 DEF QueueMatches

(* ... and every step adds a line's job at the end or takes one at the head.   *)
LEMMA NextQueueMatches ==
  ASSUME StartInv, QueueMatches, [ProgramNext]_<<vars, startVars>>
  PROVE  QueueMatches'
<1>1. ASSUME Start!ReadLine, UNCHANGED vars PROVE QueueMatches'
  <2> DEFINE found == Start!Scanned(file.lines[position])
             now   == [r \in DOMAIN registers |->
                        IF r \in DOMAIN found THEN found[r] ELSE registers[r]]
             job   == JobIn(now)
  <2>1. /\ position <= FileLength /\ registers' = now
        /\ queue' = Append(queue, job) /\ position' = position + 1 /\ UNCHANGED file
    BY <1>1 DEF Start!ReadLine, FileLength, JobIn
  <2>2. position \in 1..FileLength
    BY <2>1 DEF StartInv, QueueTyped, CommandLineGiven
  <2>3. Matches(job, position)
    BY <2>2, LineMakesItsJob DEF StartInv, RegistersTyped, QueueMatches
  <2>4. JobIn(registers') = job
    BY <2>1
  <2> HIDE DEF job, now, found
  <2>5. /\ queue \in Seq(Jobs(file)) /\ Len(queue) \in Nat /\ Len(queue') = Len(queue) + 1
        /\ \A k \in 1..Len(queue) : queue'[k] = queue[k]
        /\ queue'[Len(queue) + 1] = job
    BY <2>1 DEF StartInv, QueueTyped
  <2>6. HandedOut' = HandedOut /\ HandedOut \in Nat /\ HandedOut + Len(queue) + 1 = position
    BY <2>1, <2>2, <2>5 DEF StartInv, QueueTyped, HandedOut
  <2>7. position' - 1 = position
    BY <2>1, <2>2
  <2>8. ASSUME NEW k \in 1..Len(queue') PROVE Matches(queue'[k], HandedOut + k)
    <3>1. CASE k \in 1..Len(queue)
      BY <2>5, <3>1 DEF QueueMatches
    <3>2. CASE k = Len(queue) + 1
      <4>1. HandedOut + k = position
        BY <2>5, <2>6, <3>2
      <4> QED BY <2>3, <2>5, <3>2, <4>1
    <3> QED BY <2>5, <3>1, <3>2
  <2>9. Matches(JobIn(registers'), position' - 1)
    BY <2>3, <2>4, <2>7
  <2>10. Matches(JobIn(registers), position - 1)'
    BY ONLY <2>1, <2>9 DEF Matches, StandsFor, ReadWell, Heard, JobOf, JobIn
  <2>11. ASSUME NEW k \in 1..Len(queue') PROVE Matches(queue[k], HandedOut + k)'
    <3>1. Matches(queue'[k], HandedOut' + k)
      BY <2>6, <2>8
    <3> QED BY ONLY <2>1, <3>1 DEF Matches, StandsFor, ReadWell, Heard, JobOf
  <2> QED BY <2>10, <2>11 DEF QueueMatches
<1>2. CASE HandOut
  <2>1. queue # <<>> /\ queue' = Tail(queue) /\ UNCHANGED <<file, position, registers>>
    BY <1>2 DEF HandOut
  <2>2. /\ Len(queue) \in Nat /\ Len(queue') = Len(queue) - 1
        /\ \A k \in 1..Len(queue') : queue'[k] = queue[k + 1]
    BY <2>1, HeadTailProperties DEF StartInv, QueueTyped
  <2>3. HandedOut' = HandedOut + 1 /\ HandedOut \in Nat
    BY <2>1, <2>2 DEF StartInv, CommandLineGiven, QueueTyped, HandedOut
  <2>4. ASSUME NEW k \in 1..Len(queue') PROVE Matches(queue'[k], HandedOut' + k)
    <3>1. k \in Nat /\ k + 1 \in 1..Len(queue)
      BY <2>2
    <3>2. HandedOut' + k = HandedOut + (k + 1)
      BY <2>3, <3>1
    <3> QED BY <2>2, <3>1, <3>2 DEF QueueMatches
  <2>5. Matches(JobIn(registers), position - 1)'
    BY <2>1 DEF QueueMatches, Matches, StandsFor, ReadWell, Heard, JobOf, JobIn
  <2>6. ASSUME NEW k \in 1..Len(queue') PROVE Matches(queue[k], HandedOut + k)'
    BY <2>1, <2>4 DEF Matches, StandsFor, ReadWell, Heard, JobOf
  <2> QED BY <2>5, <2>6 DEF QueueMatches
<1>3. ASSUME UNCHANGED <<file, position, registers, queue>> PROVE QueueMatches'
  BY <1>3 DEF QueueMatches, HandedOut, Matches, StandsFor, ReadWell, Heard, JobOf, JobIn
<1>4. CASE Load
  BY <1>1, <1>3, <1>4 DEF Load, Start!Next, Start!Usage, Start!Misconfigure,
     Start!Configure, Start!Open, Start!Ready
<1>5. CASE HandOutNowhere \/ Run \/ Elsewhere \/ UNCHANGED <<vars, startVars>>
  BY <1>3, <1>5 DEF HandOutNowhere, Run, Elsewhere, startVars
<1> QED BY <1>2, <1>4, <1>5 DEF ProgramNext

(* Where every line is heard (the name tells the order of the fields, and only *)
(* the format that begins with a character meets comments), each access stands *)
(* for itself and no line for another.                                         *)
LEMMA WhereEveryLineIsHeard ==
  ASSUME CommandLineGiven, \A k \in 1..FileLength : Heard(file.lines[k]),
         NEW n \in 1..FileLength, NEW j
  PROVE  StandsFor(n, j) <=> j = n /\ ReadWell(file.lines[n])
<1>1. Heard(file.lines[n]) /\ n \in Nat \ {0}
  BY DEF CommandLineGiven
<1>2. j \in 1..n /\ j # n => n \in (j + 1)..n
  BY <1>1
<1>3. \A i \in (n + 1)..n : FALSE
  BY <1>1
<1> QED BY <1>1, <1>2, <1>3 DEF StandsFor

(* For every file the queue holds, in order, the jobs of the accesses that its *)
(* lines stand for, each with its own address and thread; and as many jobs are *)
(* left as main's loop believes.                                               *)
THEOREM TheQueueIsTheFile == ProgramSpec => []JobsAreTheAccesses
<1>1. ProgramInit => QueueMatches
  BY InitQueueMatches DEF ProgramInit
<1>2. StartInv /\ QueueMatches => JobsAreTheAccesses
  BY DEF StartInv, QueueTyped, FileLength, QueueMatches, Matches, JobsAreTheAccesses
<1> QED BY <1>1, <1>2, InitStartInv, NextStartInv, NextQueueMatches, PTL DEF ProgramSpec

-------------------------------------------------------------------------------
(* What the caches have been given                                             *)

(* How many jobs of this kind processor p has been given: those counted, and   *)
(* the one that it has not taken yet.                                          *)
CounterOf(op) == IF op = "R" THEN "numReads" ELSE "numWrites"

Given(p, op) ==
  stats[p][CounterOf(op)] +
    (IF ctl[p].pending # <<>> /\ Head(ctl[p].pending).op = op THEN 1 ELSE 0)

(* Both are counters.                                                          *)
LEMMA CounterOfCounts == \A op : CounterOf(op) \in Counters
BY DEF CounterOf, Counters

(* Accesses are counted when they are taken, ...                               *)
LEMMA TakenCounts ==
  ASSUME NEW op \in {"R", "W"}, NEW o \in Ops, NEW s
  PROVE  /\ CounterOf(op) \in RequestCounts(o, s) <=> o = op
         /\ Decision(o, s) = "drop" => o # op
         /\ Decision(o, s) \in Commands \cup {"hit"} \/ Decision(o, s) = "drop"
<1>1. CounterOf(op) \in RequestCounts(o, s) <=> o = op
  <2>1. CounterOf(op) \notin WriteCounts(s) /\ \A hit : CounterOf(op) \notin ReadCounts(hit)
    BY DEF CounterOf, WriteCounts, ReadCounts
  <2> QED BY <2>1 DEF RequestCounts, CounterOf, Ops
<1> QED BY <1>1 DEF Decision, Commands, Ops

(* ... and nowhere else.                                                       *)
LEMMA OthersCountNone ==
  ASSUME NEW op \in {"R", "W"}
  PROVE  /\ \A cmd, s : CounterOf(op) \notin SnoopCounts(cmd, s) \cup FlushCounts(cmd, s)
         /\ \A o, cmd, shared, installed, s :
              CounterOf(op) \notin DoneCounts(o, cmd, shared, installed, s)
         /\ \A counts, cmd, f, h : counts \in [Counters -> Nat] =>
              GrantedCounts(counts, cmd, f, h)[CounterOf(op)] = counts[CounterOf(op)]
<1>1. \A cmd, s : CounterOf(op) \notin SnoopCounts(cmd, s) \cup FlushCounts(cmd, s)
  BY ProtocolAssumption DEF CounterOf, SnoopCounts, FlushCounts
<1>2. \A o, cmd, shared, installed, s :
        CounterOf(op) \notin DoneCounts(o, cmd, shared, installed, s)
  BY DEF CounterOf, DoneCounts
<1>3. \A counts, cmd, f, h : counts \in [Counters -> Nat] =>
        GrantedCounts(counts, cmd, f, h)[CounterOf(op)] = counts[CounterOf(op)]
  BY CounterOfCounts DEF CounterOf, GrantedCounts
<1> QED BY <1>1, <1>2, <1>3

(* A cache whose jobs and counts stay has been given as much as before.        *)
LEMMA GivenKept ==
  ASSUME \A q \in Procs : ctl'[q].pending = ctl[q].pending,
         \A q \in Procs, op \in {"R", "W"} :
           stats'[q][CounterOf(op)] = stats[q][CounterOf(op)]
  PROVE  \A q \in Procs, op \in {"R", "W"} : Given(q, op)' = Given(q, op)
BY DEF Given, CounterOf

(* Main gives a cache one job.                                                 *)
LEMMA DispatchGives ==
  ASSUME SmpInv, NEW p \in Procs, NEW o \in TraceOps, NEW b \in Blocks, Dispatch(p, o, b),
         NEW q \in Procs, NEW op \in {"R", "W"}
  PROVE  Given(q, op)' = Given(q, op) + (IF q = p /\ o = op THEN 1 ELSE 0)
<1> DEFINE job == [op |-> o, block |-> b]
           n   == Append(ctl[p].pending, job)
           c   == [ctl[p] EXCEPT !.pending = n]
<1>1. ctl' = [ctl EXCEPT ![p] = c] /\ stats' = stats /\ pc = "loop"
  BY DEF Dispatch
<1>2. ctl \in [Procs -> Ctl] /\ ctl[p].pending = <<>>
  BY <1>1 DEF SmpInv, CtlInv, ControlTyped, Handshake
<1>3. n = <<job>>
  BY <1>2
<1>4. n # <<>> /\ Head(n).op = o
  BY <1>3
<1> HIDE DEF n
<1>5. c.pending = n
  BY <1>2 DEF Ctl
<1> HIDE DEF c
<1>6. ctl'[q] = IF q = p THEN c ELSE ctl[q]
  BY <1>1, <1>2
<1>7. stats[q][CounterOf(op)] \in Nat
  BY CounterOfCounts DEF SmpInv, StatsTyped
<1> QED BY <1>1, <1>2, <1>4, <1>5, <1>6, <1>7 DEF Given, CounterOf

(* A cache that takes a job takes its only one.                                *)
LEMMA OnlyJob ==
  ASSUME NEW S, NEW s \in Seq(S), s # <<>>, Len(s) <= 1
  PROVE  Tail(s) = <<>>
<1>1. Len(s) \in Nat \ {0}
  BY EmptySeq
<1>2. Len(s) = 1
  BY <1>1
<1>3. Tail(s) \in Seq(S) /\ Len(Tail(s)) = 0
  BY <1>2, HeadTailProperties
<1> QED BY <1>3, EmptySeq

(* A cache that takes its job counts it.                                       *)
LEMMA TickHandlesGives ==
  ASSUME SmpInv, NEW p \in Procs, TickHandles(p)
  PROVE  \A q \in Procs, op \in {"R", "W"} : Given(q, op)' = Given(q, op)
<1>0. PICK c : \E job \in Job, s \in ProtocolStates : Taken(p, c, job, s)
  BY TickHandlesTakes DEF SmpInv
<1>1. PICK job \in Job, s \in ProtocolStates : Taken(p, c, job, s)
  BY <1>0
<1>2. ctl \in [Procs -> Ctl] /\ stats \in [Procs -> [Counters -> Nat]]
  BY DEF SmpInv, CtlInv, ControlTyped, StatsTyped
<1>3. ctl[p].pending # <<>> /\ Len(ctl[p].pending) <= 1
  BY DEF TickHandles, SmpInv, CtlInv, Handshake
<1>4. c.pending = <<>>
  <2>1. ctl[p].pending \in Seq(Job)
    BY <1>2 DEF Ctl
  <2> QED BY <1>1, <1>3, <2>1, OnlyJob DEF Taken
<1>5. job = Head(ctl[p].pending) /\ \A q \in Procs : ctl'[q] = IF q = p THEN c ELSE ctl[q]
  BY <1>1, <1>2 DEF Taken
<1>6. \A q \in Procs : q # p => stats'[q] = stats[q]
  BY <1>1, <1>2 DEF Taken
<1>7. ASSUME NEW op \in {"R", "W"}
      PROVE  stats'[p][CounterOf(op)] = stats[p][CounterOf(op)] + (IF job.op = op THEN 1 ELSE 0)
  <2>1. job.op \in Ops /\ stats[p][CounterOf(op)] \in Nat
    BY <1>2, CounterOfCounts DEF Job
  <2>2. CASE Decision(job.op, s) = "drop"
    <3>1. stats' = stats
      BY <1>1, <2>2 DEF Taken, Commands
    <3>2. job.op # op
      BY <2>1, <2>2, TakenCounts
    <3> QED BY <2>1, <3>1, <3>2
  <2>3. CASE Decision(job.op, s) \in Commands \cup {"hit"}
    <3>1. stats'[p] = Bump(stats[p], RequestCounts(job.op, s))
      BY <1>1, <1>2, <2>3 DEF Taken, Commands
    <3> QED BY <2>1, <3>1, TakenCounts, BumpAdds, CounterOfCounts
  <2> QED BY <2>1, <2>2, <2>3, TakenCounts
<1>8. ASSUME NEW op \in {"R", "W"} PROVE Given(p, op)' = Given(p, op)
  <2>1. Given(p, op) = stats[p][CounterOf(op)] + (IF job.op = op THEN 1 ELSE 0)
    BY <1>3, <1>5 DEF Given
  <2>2. Given(p, op)' = stats'[p][CounterOf(op)] + 0
    BY <1>4, <1>5 DEF Given, CounterOf
  <2>3. stats[p][CounterOf(op)] \in Nat
    BY <1>2, CounterOfCounts
  <2> QED BY <1>7, <2>1, <2>2, <2>3
<1>9. ASSUME NEW q \in Procs, q # p, NEW op \in {"R", "W"} PROVE Given(q, op)' = Given(q, op)
  BY <1>5, <1>6, <1>9 DEF Given, CounterOf
<1> QED BY <1>8, <1>9

(* The end of a transaction counts no access and takes no job, ...             *)
LEMMA BusFinishGives ==
  ASSUME SmpInv, BusFinish
  PROVE  \A q \in Procs, op \in {"R", "W"} : Given(q, op)' = Given(q, op)
<1> DEFINE p     == bus.current
           again == Reissues(ctl[p].job.op, bus.isShared)
           r     == IF again THEN [cmd |-> "BusRdX", block |-> ctl[p].job.block, cost |-> CacheCost]
                    ELSE ctl[p].req
           k     == IF again THEN CacheCost ELSE ctl[p].cost
           c     == [ctl[p] EXCEPT !.haveBusRequest = again, !.busy = again, !.serviced = FALSE,
                                   !.start = cycle, !.cost = k, !.req = r]
           block == ctl[p].job.block
           old   == lines[p][SetOf(block)]
           new   == ~HasLine(old, block)
           set   == IF new THEN ReplaceLine(old, block, cycle) ELSE old
           state == set[FirstWay(set, block)].state
           added == DoneCounts(ctl[p].job.op, ctl[p].req.cmd, bus.isShared, new, state)
<1>1. ctl' = [ctl EXCEPT ![p] = c]
  BY Zenon DEF BusFinish
<1>2. ctl \in [Procs -> Ctl] /\ stats \in [Procs -> [Counters -> Nat]] /\ p \in Procs
  BY BusTurn DEF BusFinish, SmpInv, CtlInv, ControlTyped, StatsTyped
<1>3. stats' = [stats EXCEPT ![p] = Bump(stats[p], added)]
  <2>1. stats' = [stats EXCEPT ![p] = Bump(@, added \cup {})]
    BY NeverFull DEF BusFinish
  <2>2. added \cup {} = added
    OBVIOUS
  <2> HIDE DEF added
  <2> QED BY <2>1, <2>2
<1>4. \A op \in {"R", "W"} : CounterOf(op) \notin added
  BY OthersCountNone
<1> HIDE DEF again, r, k, p, added
<1>5. c.pending = ctl[p].pending
  BY <1>2 DEF Ctl
<1> HIDE DEF c
<1>6. \A q \in Procs : ctl'[q].pending = ctl[q].pending
  BY <1>1, <1>2, <1>5
<1>7. \A q \in Procs, op \in {"R", "W"} : stats'[q][CounterOf(op)] = stats[q][CounterOf(op)]
  <2>1. \A op \in {"R", "W"} : Bump(stats[p], added)[CounterOf(op)] = stats[p][CounterOf(op)] + 0
    BY <1>4, BumpAdds, CounterOfCounts
  <2>2. \A op \in {"R", "W"} : stats[p][CounterOf(op)] \in Nat
    BY <1>2, CounterOfCounts
  <2> QED BY <1>2, <1>3, <2>1, <2>2
<1> QED BY <1>6, <1>7, GivenKept

(* ... nor does its start.                                                     *)
LEMMA BusGrantGives ==
  ASSUME SmpInv, NEW p \in Procs, BusGrant(p)
  PROVE  \A q \in Procs, op \in {"R", "W"} : Given(q, op)' = Given(q, op)
<1> DEFINE i        == SetOf(ctl[p].req.block)
           tag      == WireTag(ctl[p].req.block)
           cmd      == ctl[p].req.cmd
           f        == {q \in Procs \ {p} : Flushes(Held(q, i, tag))}
           h        == {q \in Procs \ {p} : AnswersShared(Held(q, i, tag))}
           Added(q) == SnoopCounts(cmd, Held(q, i, tag)) \cup FlushCounts(cmd, Held(q, i, tag))
<1>1. stats' = [q \in Procs |-> IF q = p THEN GrantedCounts(stats[p], cmd, f, h)
                                ELSE Bump(stats[q], Added(q))]
  BY DEF BusGrant
<1>2. PICK k : ctl' = [ctl EXCEPT ![p] =
                         [ctl[p] EXCEPT !.serviced = TRUE, !.start = cycle, !.cost = k]]
  BY DEF BusGrant
<1>3. ctl \in [Procs -> Ctl] /\ stats \in [Procs -> [Counters -> Nat]]
  BY DEF SmpInv, CtlInv, ControlTyped, StatsTyped
<1>4. \A q \in Procs : ctl'[q].pending = ctl[q].pending
  BY <1>2, <1>3 DEF Ctl
<1>5. ASSUME NEW q \in Procs, NEW op \in {"R", "W"}
      PROVE  stats'[q][CounterOf(op)] = stats[q][CounterOf(op)]
  <2>1. CounterOf(op) \notin Added(q)
    BY OthersCountNone
  <2>2. stats[q] \in [Counters -> Nat] /\ stats[q][CounterOf(op)] \in Nat
    BY <1>3, CounterOfCounts
  <2> HIDE DEF Added, f, h, cmd
  <2>3. Bump(stats[q], Added(q))[CounterOf(op)] = stats[q][CounterOf(op)] + 0
    BY <2>1, BumpAdds, CounterOfCounts
  <2>4. GrantedCounts(stats[q], cmd, f, h)[CounterOf(op)] = stats[q][CounterOf(op)]
    BY <2>2, OthersCountNone
  <2> QED BY <1>1, <2>2, <2>3, <2>4
<1> QED BY <1>4, <1>5, GivenKept

(* A step of the machine other than Dispatch gives no cache anything.          *)
LEMMA OthersGiveNone ==
  ASSUME SmpInv,
         \/ UNCHANGED vars
         \/ Tick \/ Exit \/ Done
         \/ \E p \in Procs : TickServiced(p) \/ TickIdle(p) \/ TickHandles(p)
         \/ BusWaits \/ BusFinish \/ BusIdle
         \/ \E p \in Procs : BusGrant(p)
  PROVE  \A q \in Procs, op \in {"R", "W"} : Given(q, op)' = Given(q, op)
<1>1. ASSUME UNCHANGED <<ctl, stats>>
      PROVE  \A q \in Procs, op \in {"R", "W"} : Given(q, op)' = Given(q, op)
  BY <1>1, GivenKept
<1>2. CASE UNCHANGED vars \/ Tick \/ Exit \/ Done \/ BusWaits \/ BusIdle
  BY <1>1, <1>2 DEF vars, Tick, Exit, Done, BusWaits, BusIdle
<1>3. ASSUME NEW p \in Procs, TickServiced(p)
      PROVE  \A q \in Procs, op \in {"R", "W"} : Given(q, op)' = Given(q, op)
  BY <1>1, <1>3 DEF TickServiced
<1>4. ASSUME NEW p \in Procs, TickIdle(p)
      PROVE  \A q \in Procs, op \in {"R", "W"} : Given(q, op)' = Given(q, op)
  <2> DEFINE n == BusyStill(p)
  <2>1. ctl' = [ctl EXCEPT ![p] = [ctl[p] EXCEPT !.busy = n]] /\ stats' = stats
    BY <1>4 DEF TickIdle
  <2>2. ctl \in [Procs -> Ctl]
    BY DEF SmpInv, CtlInv, ControlTyped
  <2> HIDE DEF n
  <2>3. \A q \in Procs : ctl'[q].pending = ctl[q].pending
    BY <2>1, <2>2 DEF Ctl
  <2> QED BY <2>1, <2>3, GivenKept
<1> QED BY <1>2, <1>3, <1>4, TickHandlesGives, BusFinishGives, BusGrantGives

-------------------------------------------------------------------------------
(* Every access of the file is served                                          *)

(* Main returns when nothing is left, ...                                      *)
DoneWhenEmpty == pc = "done" => remaining = 0

(* ... and has given the caches what the lines handed out say.                 *)
CharOf(op) == IF op = "R" THEN "r" ELSE "w"

Said(p, op) == Cardinality(AccessLines(HandedOut, CharOf(op), p))

GivenIsFile == \A p \in Procs, op \in {"R", "W"} : Given(p, op) = Said(p, op)

ServedInv == StartInv /\ QueueMatches /\ SmpInv /\ DoneWhenEmpty /\ GivenIsFile

(* One line more is one access more of the thread it names, or none.           *)
LEMMA OneLineMore ==
  ASSUME NEW n \in Nat, NEW char, NEW p
  PROVE  Cardinality(AccessLines(n + 1, char, p)) =
           Cardinality(AccessLines(n, char, p)) + (IF MakesAccess(n + 1, char, p) THEN 1 ELSE 0)
<1> DEFINE Is(k) == MakesAccess(k, char, p)
           S == AccessLines(n, char, p)
<1>1. S = {k \in 1..n : Is(k)} /\ AccessLines(n + 1, char, p) = {k \in 1..(n + 1) : Is(k)}
  BY DEF AccessLines
<1> HIDE DEF Is, S
<1>2. IsFiniteSet(1..n) /\ S \subseteq 1..n
  BY <1>1, FS_Interval
<1>3. n + 1 \notin S
  BY <1>2
<1>4. IsFiniteSet(S) /\ Cardinality(S) \in Nat
  BY <1>2, FS_Subset, FS_CardinalityType
<1>5. CASE Is(n + 1)
  <2>1. AccessLines(n + 1, char, p) = S \cup {n + 1}
    BY <1>1, <1>5
  <2>2. Cardinality(S \cup {n + 1}) = Cardinality(S) + 1
    BY <1>3, <1>4, FS_AddElement
  <2> QED BY <1>5, <2>1, <2>2 DEF Is, S
<1>6. CASE ~Is(n + 1)
  <2>1. AccessLines(n + 1, char, p) = S
    BY <1>1, <1>6
  <2> QED BY <1>4, <1>6, <2>1 DEF Is, S
<1> QED BY <1>5, <1>6

(* A job handed out is one job more for the cache that its line names.         *)
LEMMA HandOutGives ==
  ASSUME ServedInv, HandOut, NEW p \in Procs, NEW op \in {"R", "W"}
  PROVE  Given(p, op)' = Said(p, op)'
<1> DEFINE n == HandedOut + 1
           thread == NextJob.threadId
           b == Start!TagOf(NextJob.address)
<1>1. /\ Built /\ queue # <<>> /\ queue' = Tail(queue) /\ UNCHANGED position
      /\ thread \in Procs /\ Dispatch(thread, NextJob.op, b)
  BY DEF HandOut
<1>2. NextJob.op \in TraceOps /\ b \in Blocks
  BY <1>1, HeadOfQueue DEF ServedInv
<1> HIDE DEF b
<1>3. Given(p, op)' = Given(p, op) + (IF p = thread /\ NextJob.op = op THEN 1 ELSE 0)
  BY <1>1, <1>2, DispatchGives DEF ServedInv
<1>4. /\ Len(queue) \in Nat \ {0} /\ Len(queue') = Len(queue) - 1 /\ NextJob = queue[1]
  BY <1>1, HeadTailProperties, EmptySeq DEF ServedInv, StartInv, QueueTyped, NextJob
<1>5. HandedOut \in Nat /\ HandedOut' = HandedOut + 1 /\ HandedOut + 1 \in 1..FileLength
  BY <1>1, <1>4 DEF ServedInv, StartInv, CommandLineGiven, QueueTyped, HandedOut
<1>6. Matches(NextJob, n) /\ n \in Nat
  <2>1. 1 \in 1..Len(queue)
    BY <1>4
  <2> QED BY <1>4, <1>5, <2>1 DEF ServedInv, QueueMatches
<1>7. \A j \in 1..n : /\ file.lines[j].kind = "access" => file.lines[j].readWrite \in {"r", "w"}
                      /\ StandsFor(n, j) => file.lines[j].kind = "access"
  <2>1. \A j \in 1..n : j \in 1..FileLength
    BY <1>5 DEF ServedInv, StartInv, CommandLineGiven
  <2> QED BY <2>1, ScannedFields DEF ServedInv, StartInv, StandsFor, ReadWell
<1> DEFINE is == MakesAccess(n, CharOf(op), p)
<1> HIDE DEF n
<1>8. (p = thread /\ NextJob.op = op) <=> is
  <2>1. CASE \E j \in 1..n : StandsFor(n, j) /\ NextJob = JobOf(file.lines[j])
    <3>1. PICK j \in 1..n : StandsFor(n, j) /\ NextJob = JobOf(file.lines[j])
      BY <2>1
    <3>2. is <=> file.lines[j].readWrite = CharOf(op) /\ file.lines[j].threadId = p
      BY <1>6, <3>1, OneStandsFor DEF MakesAccess
    <3> QED BY <1>7, <3>1, <3>2 DEF JobOf, CharOf
  <2>2. CASE NextJob.op = "other" /\ \A j \in 1..n : ~StandsFor(n, j)
    BY <2>2 DEF MakesAccess
  <2> QED BY <1>6, <2>1, <2>2 DEF Matches
<1> HIDE DEF is
<1>9. Cardinality(AccessLines(HandedOut + 1, CharOf(op), p)) = Said(p, op) + (IF is THEN 1 ELSE 0)
  BY <1>5, OneLineMore DEF Said, is, n
<1>10. Said(p, op)' = Cardinality(AccessLines(HandedOut + 1, CharOf(op), p))
  <2>1. file' = file
    BY DEF HandOut
  <2> QED BY <1>5, <2>1 DEF Said, AccessLines, MakesAccess, StandsFor, ReadWell, Heard, CharOf
<1>11. Given(p, op) = Said(p, op)
  BY DEF ServedInv, GivenIsFile
<1> QED BY <1>3, <1>8, <1>9, <1>10, <1>11

(* So what the caches have been given stays what the lines say.                *)
LEMMA NextServedInv == ServedInv /\ [ProgramNext]_<<vars, startVars>> => ServedInv'
<1> SUFFICES ASSUME ServedInv, [ProgramNext]_<<vars, startVars>> PROVE ServedInv'
  OBVIOUS
<1>1. StartInv' /\ QueueMatches' /\ SmpInv' /\ [Next]_vars
  BY NextStartInv, NextQueueMatches, ProgramSteps, NextSmpInv DEF ServedInv
<1>2. DoneWhenEmpty'
  <2>1. CASE UNCHANGED <<pc, remaining>>
    BY <2>1 DEF ServedInv, DoneWhenEmpty
  <2>2. CASE Exit
    BY <2>2 DEF Exit, DoneWhenEmpty
  <2>3. CASE pc' # "done"
    BY <2>3 DEF DoneWhenEmpty
  <2>4. ASSUME NEW p \in Procs, Ticks(p) PROVE UNCHANGED <<pc, remaining>> \/ pc' # "done"
    BY <2>4 DEF Ticks
  <2>5. pc' # "done" \/ UNCHANGED <<pc, remaining>> \/ Exit
    BY <1>1, <2>4 DEF Next, vars, Dispatch, StartTicks, Tick, Done, TickServiced, TickIdle,
       TickHandles, BusWaits, BusFinish, BusIdle, BusGrant
  <2> QED BY <2>1, <2>2, <2>3, <2>5
<1>3. ASSUME UNCHANGED file, HandedOut' = HandedOut,
             \A q \in Procs, op \in {"R", "W"} : Given(q, op)' = Given(q, op)
      PROVE  GivenIsFile'
  <2>1. \A q, op : Said(q, op)' = Said(q, op)
    BY <1>3 DEF Said, AccessLines, MakesAccess, StandsFor, ReadWell, Heard, CharOf
  <2> QED BY <1>3, <2>1 DEF ServedInv, GivenIsFile
<1>4. GivenIsFile'
  <2>1. CASE HandOut
    BY <2>1, HandOutGives DEF GivenIsFile
  <2>2. CASE UNCHANGED vars /\ (Load \/ HandOutNowhere \/ Elsewhere \/ UNCHANGED startVars)
    <3>1. HandedOut' = HandedOut
      <4>1. CASE Start!ReadLine
        BY <2>2, <4>1, <1>1 DEF ServedInv, StartInv, QueueTyped, vars, FileLength, Start!ReadLine
      <4>2. CASE UNCHANGED <<position, queue>>
        BY <4>2 DEF HandedOut
      <4> QED BY <2>2, <4>1, <4>2 DEF Load, HandOutNowhere, Elsewhere, startVars, Start!Next,
             Start!Usage, Start!Misconfigure, Start!Configure, Start!Open, Start!Ready
    <3>2. UNCHANGED file
      BY <2>2 DEF Load, HandOutNowhere, Elsewhere, startVars, Start!Next, Start!Usage,
         Start!Misconfigure, Start!Configure, Start!Open, Start!ReadLine, Start!Ready
    <3> QED BY <1>3, <2>2, <3>1, <3>2, OthersGiveNone DEF ServedInv
  <2>3. CASE Run
    <3>1. UNCHANGED file /\ HandedOut' = HandedOut
      BY <2>3 DEF Run, startVars, HandedOut
    <3>2. \A q \in Procs, op \in {"R", "W"} : Given(q, op)' = Given(q, op)
      BY <2>3, OthersGiveNone DEF Run, ServedInv
    <3> QED BY <1>3, <3>1, <3>2
  <2> QED BY <2>1, <2>2, <2>3 DEF ProgramNext, Load, HandOutNowhere, Elsewhere
<1> QED BY <1>1, <1>2, <1>4 DEF ServedInv

(* At first there are neither lines nor jobs.                                  *)
LEMMA InitServedInv == ProgramInit => ServedInv
<1> SUFFICES ASSUME ProgramInit PROVE ServedInv
  OBVIOUS
<1>1. Init /\ Start!Init /\ queue = <<>> /\ position = 1
  BY DEF ProgramInit, Start!Init
<1>2. StartInv /\ SmpInv /\ DoneWhenEmpty
  BY <1>1, InitStartInv, InitSmpInv DEF DoneWhenEmpty, Init
<1>3. QueueMatches
  BY <1>1, InitQueueMatches
<1>4. HandedOut = 0
  <2>1. position = 1 /\ Len(queue) = 0
    BY <1>1
  <2> QED BY <2>1 DEF HandedOut
<1>5. \A p, op : Said(p, op) = 0
  <2>1. \A p, char : AccessLines(0, char, p) = {}
    BY DEF AccessLines
  <2> QED BY <1>4, <2>1, FS_EmptySet DEF Said
<1>6. \A p \in Procs, op \in {"R", "W"} : Given(p, op) = 0
  <2>1. \A p \in Procs : ctl[p].pending = <<>> /\ stats[p] = ZeroCounters
    BY <1>1 DEF Init
  <2> QED BY <2>1, CounterOfCounts DEF Given, ZeroCounters
<1> QED BY <1>2, <1>3, <1>5, <1>6 DEF ServedInv, GivenIsFile

(* For every file: when the program returns, every processor has read and      *)
(* written once for each line that stands for such an access of its own,       *)
(* whatever the machine did in between.                                        *)
THEOREM EveryLineServed == ProgramSpec => []EveryAccessServed
<1>1. ServedInv => EveryAccessServed
  <2> SUFFICES ASSUME ServedInv, pc = "done", NEW p \in Procs
               PROVE  /\ stats[p].numReads = Cardinality(AccessLines(Len(file.lines), "r", p))
                      /\ stats[p].numWrites = Cardinality(AccessLines(Len(file.lines), "w", p))
    BY DEF EveryAccessServed
  <2>1. HandedOut = FileLength
    BY DEF ServedInv, DoneWhenEmpty, StartInv, QueueTyped, CommandLineGiven
  <2>2. ctl[p].pending = <<>> /\ \A c \in Counters : stats[p][c] \in Nat
    BY DEF ServedInv, SmpInv, CtlInv, Handshake, StatsTyped
  <2>3. Given(p, "R") = stats[p].numReads /\ Given(p, "W") = stats[p].numWrites
    <3>1. stats[p]["numReads"] \in Nat /\ stats[p]["numWrites"] \in Nat
      BY <2>2 DEF Counters
    <3>2. /\ Given(p, "R") = stats[p]["numReads"] + 0
          /\ Given(p, "W") = stats[p]["numWrites"] + 0
      BY <2>2 DEF Given, CounterOf
    <3> QED BY <3>1, <3>2
  <2>4. /\ Given(p, "R") = Cardinality(AccessLines(FileLength, "r", p))
        /\ Given(p, "W") = Cardinality(AccessLines(FileLength, "w", p))
    BY <2>1 DEF ServedInv, GivenIsFile, Said, CharOf
  <2> QED BY <2>3, <2>4 DEF FileLength
<1> QED BY <1>1, InitServedInv, NextServedInv, PTL DEF ProgramSpec

-------------------------------------------------------------------------------
(* Powers of two and logarithms                                                *)

(* What holds of zero, and of a number if it holds of the one before it, holds *)
(* of every number.                                                            *)
LEMMA Counting ==
  ASSUME NEW T, 0 \in T, \A n \in Nat : n \in T => n + 1 \in T
  PROVE  \A n \in Nat : n \in T
<1> SUFFICES ASSUME NEW n0 \in Nat, n0 \notin T PROVE FALSE
  OBVIOUS
<1> DEFINE Bad == {n \in Nat : n \notin T}
<1>1. Bad \subseteq Nat /\ Bad # {}
  OBVIOUS
<1>2. PICK n \in Bad : \A m \in Bad : n <= m
  <2> HIDE DEF Bad
  <2> QED BY <1>1, LeastNat
<1>3. n # 0 /\ n - 1 \in Nat /\ n - 1 \notin Bad
  BY <1>2
<1> QED BY <1>3

(* A set has twice as many parts with one element more.                        *)
LEMMA PowerDoubles ==
  ASSUME NEW k \in Nat
  PROVE  2^k \in Nat /\ 2^(k + 1) = 2 * 2^k
<1> DEFINE A == SUBSET (1..k)
           B == {s \cup {k + 1} : s \in A}
           h == [s \in A |-> s \cup {k + 1}]
<1>1. IsFiniteSet(1..k) /\ Cardinality(1..k) = k
  BY FS_Interval
<1>2. IsFiniteSet(1..(k + 1)) /\ Cardinality(1..(k + 1)) = k + 1
  BY FS_Interval
<1>3. IsFiniteSet(A) /\ Cardinality(A) = 2^k /\ 2^k \in Nat
  BY <1>1, FS_SUBSET, FS_CardinalityType
<1>4. Cardinality(SUBSET (1..(k + 1))) = 2^(k + 1)
  BY <1>2, FS_SUBSET
<1>5. k + 1 \notin 1..k /\ 1..(k + 1) = (1..k) \cup {k + 1}
  OBVIOUS
<1>6. A \cap B = {}
  BY <1>5
<1>7. SUBSET (1..(k + 1)) = A \cup B
  <2>1. ASSUME NEW s \in SUBSET (1..(k + 1)) PROVE s \in A \cup B
    <3>1. CASE k + 1 \in s
      <4>1. s \ {k + 1} \in A /\ s = (s \ {k + 1}) \cup {k + 1}
        BY <1>5, <3>1
      <4> QED BY <4>1
    <3>2. CASE k + 1 \notin s
      BY <1>5, <3>2
    <3> QED BY <3>1, <3>2
  <2>2. A \subseteq SUBSET (1..(k + 1)) /\ B \subseteq SUBSET (1..(k + 1))
    BY <1>5
  <2> QED BY <2>1, <2>2
<1>8. ExistsBijection(A, B)
  <2>1. h \in [A -> B] /\ \A t \in B : \E s \in A : h[s] = t
    OBVIOUS
  <2>2. ASSUME NEW s \in A, NEW t \in A, h[s] = h[t] PROVE s = t
    <3>1. k + 1 \notin s /\ k + 1 \notin t
      BY <1>5
    <3> QED BY <2>2, <3>1
  <2> HIDE DEF A, B, h
  <2>3. h \in Bijection(A, B)
    BY <2>1, <2>2 DEF Bijection, Injection, Surjection, IsInjective
  <2> QED BY <2>3 DEF ExistsBijection
<1> HIDE DEF A, B, h
<1>9. IsFiniteSet(B) /\ Cardinality(B) = 2^k
  BY <1>3, <1>8, FS_Bijection
<1>10. Cardinality(A \cup B) = Cardinality(A) + Cardinality(B)
  <2>1. Cardinality(A \cap B) = 0
    BY <1>6, FS_EmptySet
  <2>2. IsFiniteSet(A) /\ IsFiniteSet(B)
    BY <1>3, <1>9
  <2>3. Cardinality(A) \in Nat /\ Cardinality(B) \in Nat
    BY <2>2, FS_CardinalityType
  <2>4. Cardinality(A \cup B)
          = Cardinality(A) + Cardinality(B) - Cardinality(A \cap B)
    BY <2>2, FS_Union
  <2> QED BY <2>1, <2>3, <2>4
<1>11. 2^(k + 1) = 2^k + 2^k
  BY <1>3, <1>4, <1>7, <1>9, <1>10
<1> QED BY <1>3, <1>11

(* So the powers of two double, and each exceeds its exponent.                 *)
LEMMA PowersOfTwo ==
  /\ 2^0 = 1
  /\ \A k \in Nat : 2^k \in Nat /\ k < 2^k /\ 2^(k + 1) = 2 * 2^k
<1>1. 2^0 = 1
  OBVIOUS
<1>2. \A k \in Nat : 2^k \in Nat /\ 2^(k + 1) = 2 * 2^k
  BY PowerDoubles
<1> DEFINE T == {k \in Nat : k < 2^k}
<1>3. 0 \in T
  BY <1>1
<1>4. \A k \in Nat : k \in T => k + 1 \in T
  BY <1>2
<1> HIDE DEF T
<1>5. \A k \in Nat : k \in T
  BY <1>3, <1>4, Counting
<1> QED BY <1>1, <1>2, <1>5 DEF T

(* A higher power is no smaller.                                               *)
LEMMA PowersGrow ==
  ASSUME NEW j \in Nat, NEW k \in Nat, j <= k
  PROVE  2^j <= 2^k
<1> DEFINE T == {n \in Nat : 2^j <= 2^(j + n)}
<1>1. 0 \in T
  BY PowersOfTwo
<1>2. \A n \in Nat : n \in T => n + 1 \in T
  <2> SUFFICES ASSUME NEW n \in Nat, 2^j <= 2^(j + n) PROVE 2^j <= 2^(j + (n + 1))
    OBVIOUS
  <2>1. j + n \in Nat /\ j + (n + 1) = (j + n) + 1
    OBVIOUS
  <2> QED BY <2>1, PowersOfTwo
<1> HIDE DEF T
<1>3. k - j \in T
  BY <1>1, <1>2, Counting
<1> QED BY <1>3 DEF T

(* (int)log2 of a positive number.                                             *)
LEMMA Log2Is ==
  ASSUME NEW n \in Nat \ {0}
  PROVE  /\ Start!Log2(n) \in Nat
         /\ 2^Start!Log2(n) <= n /\ n < 2^(Start!Log2(n) + 1)
<1> DEFINE T == {k \in Nat : n < 2^(k + 1)}
<1>1. T \subseteq Nat /\ n \in T
  <2>1. 2^n \in Nat /\ n < 2^n /\ 2^(n + 1) = 2 * 2^n
    BY PowersOfTwo
  <2> QED BY <2>1
<1>2. PICK k \in T : \A m \in T : k <= m
  <2> HIDE DEF T
  <2> QED BY <1>1, LeastNat
<1>3. k \in 0..n /\ n < 2^(k + 1)
  BY <1>1, <1>2
<1>4. 2^k <= n
  <2>1. CASE k = 0
    BY <2>1, PowersOfTwo
  <2>2. CASE k # 0
    <3>1. k - 1 \in Nat /\ k - 1 \notin T /\ (k - 1) + 1 = k
      BY <1>2, <2>2
    <3> QED BY <3>1, PowersOfTwo
  <2> QED BY <2>1, <2>2
<1>5. \E j \in 0..n : 2^j <= n /\ n < 2^(j + 1)
  BY <1>3, <1>4
<1> QED BY <1>5 DEF Start!Log2

(* The loop makes a mask of so many ones.                                      *)
LEMMA TagMaskIs ==
  ASSUME NEW bits \in Nat
  PROVE  Start!TagMaskOf(bits) = 2^bits - 1
<1> DEFINE IsOnes(g) == g = [n \in Nat |-> IF n = 0 THEN 0 ELSE 2 * g[n - 1] + 1]
           w == [n \in Nat |-> 2^n - 1]
           ones == CHOOSE g : IsOnes(g)
           T == {n \in Nat : ones[n] = 2^n - 1}
<1>1. Start!TagMaskOf(bits) = ones[bits]
  BY Zenon DEF Start!TagMaskOf
<1>2. IsOnes(w)
  <2> SUFFICES ASSUME NEW n \in Nat
               PROVE  w[n] = IF n = 0 THEN 0 ELSE 2 * w[n - 1] + 1
    OBVIOUS
  <2>1. CASE n = 0
    BY <2>1, PowersOfTwo
  <2>2. CASE n # 0
    <3>1. n - 1 \in Nat /\ (n - 1) + 1 = n
      BY <2>2
    <3>2. 2^n = 2 * 2^(n - 1) /\ 2^(n - 1) \in Nat
      BY <3>1, PowersOfTwo
    <3>3. w[n] = 2^n - 1 /\ w[n - 1] = 2^(n - 1) - 1
      BY <3>1
    <3> HIDE DEF w
    <3> QED BY <2>2, <3>2, <3>3
  <2> QED BY <2>1, <2>2
<1>3. IsOnes(ones)
  <2> HIDE DEF IsOnes, w
  <2> QED BY <1>2
<1>4. ones[0] = 0 /\ \A n \in Nat : ones[n + 1] = 2 * ones[n] + 1
  <2> HIDE DEF ones
  <2>1. \A n \in Nat : ones[n] = IF n = 0 THEN 0 ELSE 2 * ones[n - 1] + 1
    BY <1>3
  <2> QED BY <2>1
<1> HIDE DEF ones
<1>5. 0 \in T
  BY <1>4, PowersOfTwo
<1>6. \A n \in Nat : n \in T => n + 1 \in T
  BY <1>4, PowersOfTwo
<1> HIDE DEF T
<1>7. bits \in T
  BY <1>5, <1>6, Counting
<1> QED BY <1>1, <1>7 DEF T

-------------------------------------------------------------------------------
(* Division                                                                    *)

(* A multiple of more is more.                                                 *)
LEMMA Larger ==
  ASSUME NEW a \in Nat, NEW b \in Nat, NEW m \in Nat, a <= b
  PROVE  m * a <= m * b /\ m * a \in Nat
OBVIOUS

(* Quotient and remainder are the numbers that fit, ...                        *)
LEMMA DivIs ==
  ASSUME NEW m \in Nat \ {0}, NEW q \in Nat, NEW r \in 0..(m - 1)
  PROVE  (m * q + r) \div m = q /\ (m * q + r) % m = r
OBVIOUS

(* ... and there are such numbers.                                             *)
LEMMA DivHas ==
  ASSUME NEW m \in Nat \ {0}, NEW x \in Nat
  PROVE  \E q \in Nat, r \in 0..(m - 1) : x = m * q + r /\ x \div m = q /\ x % m = r
<1> DEFINE T == {n \in Nat : \E q \in Nat, r \in 0..(m - 1) : n = m * q + r}
<1>1. 0 \in T
  <2>1. 0 = m * 0 + 0 /\ 0 \in 0..(m - 1)
    OBVIOUS
  <2> QED BY <2>1
<1>2. ASSUME NEW n \in Nat, n \in T PROVE n + 1 \in T
  <2>1. PICK q \in Nat, r \in 0..(m - 1) : n = m * q + r
    BY <1>2
  <2>2. CASE r + 1 < m
    <3>1. n + 1 = m * q + (r + 1) /\ r + 1 \in 0..(m - 1)
      BY <2>1, <2>2
    <3> QED BY <3>1
  <2>3. CASE r + 1 = m
    <3>1. n + 1 = m * (q + 1) + 0 /\ 0 \in 0..(m - 1) /\ q + 1 \in Nat
      BY <2>1, <2>3
    <3>2. n + 1 \in Nat
      OBVIOUS
    <3> QED BY <3>1, <3>2, Zenon DEF T
  <2> QED BY <2>2, <2>3
<1> HIDE DEF T
<1>3. x \in T
  BY <1>1, <1>2, Counting
<1>4. PICK q \in Nat, r \in 0..(m - 1) : x = m * q + r
  BY <1>3 DEF T
<1>5. (m * q + r) \div m = q /\ (m * q + r) % m = r
  BY <1>4, DivIs
<1>6. x \div m = q /\ x % m = r
  BY <1>4, <1>5
<1> QED BY <1>4, <1>6, Zenon

(* Dividing by twice as much is dividing the half.                             *)
LEMMA DivTwice ==
  ASSUME NEW m \in Nat \ {0}, NEW x \in Nat
  PROVE  /\ x \div (2 * m) = (x \div 2) \div m
         /\ (x % (2 * m)) \div 2 = (x \div 2) % m
         /\ (x % (2 * m)) % 2 = x % 2
<1> DEFINE y == x \div 2
           b == x % 2
<1>1. y \in Nat /\ b \in 0..1 /\ x = 2 * y + b
  OBVIOUS
<1> HIDE DEF y, b
<1>2. PICK q \in Nat, r \in 0..(m - 1) : y = m * q + r /\ y \div m = q /\ y % m = r
  BY <1>1, DivHas
<1>3. x = (2 * m) * q + (2 * r + b) /\ 2 * r + b \in 0..(2 * m - 1) /\ 2 * m \in Nat \ {0}
  BY <1>1, <1>2
<1>4. x \div (2 * m) = q /\ x % (2 * m) = 2 * r + b
  BY <1>2, <1>3, DivIs
<1>5. (2 * r + b) \div 2 = r /\ (2 * r + b) % 2 = b
  BY <1>1, <1>2
<1> QED BY <1>2, <1>4, <1>5 DEF y, b

(* The next number has the same quotient unless it begins a new one.           *)
LEMMA DivNext ==
  ASSUME NEW m \in Nat \ {0}, NEW x \in Nat
  PROVE  (x + 1) \div m = x \div m <=> (x + 1) % m # 0
<1>1. PICK q \in Nat, r \in 0..(m - 1) : x = m * q + r /\ x \div m = q /\ x % m = r
  BY DivHas
<1>2. CASE r + 1 < m
  <2>1. x + 1 = m * q + (r + 1) /\ r + 1 \in 0..(m - 1)
    BY <1>1, <1>2
  <2>2. (m * q + (r + 1)) \div m = q /\ (m * q + (r + 1)) % m = r + 1
    BY <1>1, <2>1, DivIs
  <2>3. (x + 1) \div m = q /\ (x + 1) % m = r + 1
    BY <2>1, <2>2
  <2> QED BY <1>1, <2>3
<1>3. CASE r + 1 = m
  <2>1. x + 1 = m * (q + 1) + 0 /\ 0 \in 0..(m - 1) /\ q + 1 \in Nat
    BY <1>1, <1>3
  <2>2. (m * (q + 1) + 0) \div m = q + 1 /\ (m * (q + 1) + 0) % m = 0
    BY <2>1, DivIs
  <2>3. (x + 1) \div m = q + 1 /\ (x + 1) % m = 0
    BY <2>1, <2>2
  <2> QED BY <1>1, <2>3
<1> QED BY <1>1, <1>2, <1>3

-------------------------------------------------------------------------------
(* Bits                                                                        *)

(* A bit is zero or one.                                                       *)
LEMMA BitTyped ==
  ASSUME NEW x \in Nat, NEW k \in Nat
  PROVE  Start!Bit(x, k) \in {0, 1}
<1>1. x \div 2^k \in Nat
  BY PowersOfTwo, DivHas
<1> HIDE DEF Start!Bit
<1>2. (x \div 2^k) % 2 \in {0, 1}
  BY <1>1
<1> QED BY <1>2 DEF Start!Bit

(* Bit 0 is the remainder, and the others are those of the half.               *)
LEMMA BitSteps ==
  ASSUME NEW x \in Nat, NEW k \in Nat
  PROVE  /\ Start!Bit(x, 0) = x % 2
         /\ Start!Bit(x, k + 1) = Start!Bit(x \div 2, k)
<1>1. x \div 1 = x
  OBVIOUS
<1>2. x \div 2^0 = x
  BY <1>1, PowersOfTwo
<1>3. 2^(k + 1) = 2 * 2^k /\ 2^k \in Nat \ {0}
  BY PowersOfTwo
<1>4. x \div (2 * 2^k) = (x \div 2) \div 2^k
  BY <1>3, DivTwice
<1>5. x \div 2^(k + 1) = (x \div 2) \div 2^k
  BY <1>3, <1>4
<1> QED BY <1>2, <1>5 DEF Start!Bit

(* A number of b bits has no others.                                           *)
LEMMA HighBits ==
  ASSUME NEW b \in Nat, NEW x \in Nat, x < 2^b, NEW k \in Nat, b <= k
  PROVE  Start!Bit(x, k) = 0
<1>1. 2^k \in Nat \ {0} /\ x < 2^k
  <2>1. 2^b <= 2^k /\ 2^b \in Nat /\ 2^k \in Nat
    BY PowersGrow, PowersOfTwo
  <2> QED BY <2>1
<1>2. x = 2^k * 0 + x /\ x \in 0..(2^k - 1)
  BY <1>1
<1>3. (2^k * 0 + x) \div 2^k = 0
  BY <1>1, <1>2, DivIs
<1>4. x \div 2^k = 0
  BY <1>2, <1>3
<1>5. 0 % 2 = 0
  OBVIOUS
<1> QED BY <1>4, <1>5, Zenon DEF Start!Bit

(* Its bits determine it.                                                      *)
LEMMA BitsDetermine ==
  ASSUME NEW b \in Nat, NEW x \in 0..(2^b - 1), NEW y \in 0..(2^b - 1),
         \A k \in 0..(b - 1) : Start!Bit(x, k) = Start!Bit(y, k)
  PROVE  x = y
<1> DEFINE Same(n, u, v) == \A k \in 0..(n - 1) : Start!Bit(u, k) = Start!Bit(v, k)
           T == {n \in Nat : \A u, v \in 0..(2^n - 1) : Same(n, u, v) => u = v}
<1>1. 0 \in T
  BY PowersOfTwo
<1>2. ASSUME NEW n \in Nat, n \in T PROVE n + 1 \in T
  <2> SUFFICES ASSUME NEW u \in 0..(2^(n + 1) - 1), NEW v \in 0..(2^(n + 1) - 1),
                      Same(n + 1, u, v)
               PROVE  u = v
    OBVIOUS
  <2>1. 2^(n + 1) = 2 * 2^n /\ 2^n \in Nat
    BY PowersOfTwo
  <2>2. u \div 2 \in 0..(2^n - 1) /\ v \div 2 \in 0..(2^n - 1) /\ u \in Nat /\ v \in Nat
    BY <2>1
  <2>3. \A k \in 0..(n - 1) : Start!Bit(u \div 2, k) = Start!Bit(v \div 2, k)
    <3> SUFFICES ASSUME NEW k \in 0..(n - 1)
                 PROVE  Start!Bit(u \div 2, k) = Start!Bit(v \div 2, k)
      OBVIOUS
    <3>1. k + 1 \in 0..((n + 1) - 1) /\ k \in Nat
      OBVIOUS
    <3>2. Start!Bit(u, k + 1) = Start!Bit(v, k + 1)
      BY <3>1
    <3> QED BY <2>2, <3>1, <3>2, BitSteps
  <2>4. u \div 2 = v \div 2
    <3> HIDE DEF Same
    <3>1. Same(n, u \div 2, v \div 2)
      BY <2>3 DEF Same
    <3> QED BY <1>2, <2>2, <3>1
  <2>5. u % 2 = v % 2
    <3>1. 0 \in 0..((n + 1) - 1)
      OBVIOUS
    <3>2. Start!Bit(u, 0) = Start!Bit(v, 0)
      BY <3>1
    <3> QED BY <2>2, <3>2, BitSteps
  <2> QED BY <2>2, <2>4, <2>5
<1> HIDE DEF T
<1>3. b \in T
  BY <1>1, <1>2, Counting
<1> QED BY <1>3 DEF T

(* The low b bits of a number are those of its remainder, and a mask of b ones *)
(* has them all.                                                               *)
LEMMA LowBits ==
  ASSUME NEW b \in Nat, NEW x \in Nat, NEW k \in 0..(b - 1)
  PROVE  Start!Bit(x % 2^b, k) = Start!Bit(x, k) /\ Start!Bit(2^b - 1, k) = 1
<1> DEFINE Good(n, u, j) ==
             Start!Bit(u % 2^n, j) = Start!Bit(u, j) /\ Start!Bit(2^n - 1, j) = 1
           T == {n \in Nat : \A u \in Nat, j \in 0..(n - 1) : Good(n, u, j)}
<1>1. 0 \in T
  OBVIOUS
<1>2. ASSUME NEW n \in Nat, n \in T PROVE n + 1 \in T
  <2> SUFFICES ASSUME NEW u \in Nat, NEW j \in 0..((n + 1) - 1) PROVE Good(n + 1, u, j)
    OBVIOUS
  <2> HIDE DEF T
  <2>1. 2^(n + 1) = 2 * 2^n /\ 2^n \in Nat \ {0}
    BY PowersOfTwo
  <2> DEFINE m == 2^n
             low == u % (2 * m)
  <2>2. u \div 2 \in Nat
    OBVIOUS
  <2>3. low \div 2 = (u \div 2) % m /\ low % 2 = u % 2
    BY <2>1, DivTwice
  <2>4. low \in Nat
    BY <2>1, DivHas
  <2>5. (2 * m - 1) \div 2 = m - 1 /\ (2 * m - 1) % 2 = 1 /\ 2 * m - 1 \in Nat
    BY <2>1
  <2>6. Good(n + 1, u, j) <=>
          Start!Bit(low, j) = Start!Bit(u, j) /\ Start!Bit(2 * m - 1, j) = 1
    BY <2>1
  <2>7. \A i \in 0..(n - 1) : Good(n, u \div 2, i)
    BY <1>2, <2>2 DEF T
  <2> HIDE DEF low, Good
  <2>8. CASE j = 0
    BY <2>3, <2>4, <2>5, <2>6, <2>8, BitSteps
  <2>9. CASE j # 0
    <3>1. j - 1 \in 0..(n - 1) /\ j - 1 \in Nat /\ (j - 1) + 1 = j
      BY <2>9
    <3>2. Good(n, u \div 2, j - 1)
      BY <2>7, <3>1
    <3>3. /\ Start!Bit((u \div 2) % m, j - 1) = Start!Bit(u \div 2, j - 1)
          /\ Start!Bit(m - 1, j - 1) = 1
      BY <3>2 DEF Good
    <3>4. \A v \in Nat : Start!Bit(v, j) = Start!Bit(v \div 2, j - 1)
      BY <3>1, BitSteps
    <3> HIDE DEF m
    <3> QED BY <2>3, <2>4, <2>5, <2>6, <3>3, <3>4
  <2> QED BY <2>8, <2>9
<1> HIDE DEF T
<1>3. b \in T
  BY <1>1, <1>2, Counting
<1> QED BY <1>3 DEF T

(* The bitwise "and" with such a mask is the remainder.                        *)
LEMMA MaskedIs ==
  ASSUME NEW b \in Nat, NEW x \in Nat
  PROVE  Start!Masked(x, 2^b - 1) = x % 2^b /\ x % 2^b \in 0..(2^b - 1)
<1> DEFINE mask == 2^b - 1
           low  == x % 2^b
           And(y) == \A k \in 0..mask : Start!Bit(y, k) = Start!Bit(x, k) * Start!Bit(mask, k)
<1>1. 2^b \in Nat \ {0} /\ b <= mask
  BY PowersOfTwo
<1>2. low \in 0..mask /\ mask \in Nat
  BY <1>1, DivHas
<1> HIDE DEF mask, low
<1>3. \A k \in 0..(b - 1) : Start!Bit(low, k) = Start!Bit(x, k) /\ Start!Bit(mask, k) = 1
  BY LowBits DEF low, mask
<1>4. \A y \in 0..mask : y < 2^b /\ y \in Nat
  BY <1>1 DEF mask
<1>5. \A y \in 0..mask : \A k \in b..mask : Start!Bit(y, k) = 0
  BY <1>4, HighBits
<1>6. \A y \in Nat, k \in Nat : Start!Bit(y, k) \in {0, 1}
  BY BitTyped
<1>7. And(low)
  <2> SUFFICES ASSUME NEW k \in 0..mask
               PROVE  Start!Bit(low, k) = Start!Bit(x, k) * Start!Bit(mask, k)
    OBVIOUS
  <2>1. CASE k < b
    <3>1. Start!Bit(x, k) \in {0, 1}
      BY <1>6
    <3>2. k \in 0..(b - 1)
      BY <2>1
    <3> QED BY <1>3, <3>1, <3>2
  <2>2. CASE b <= k
    <3>1. Start!Bit(low, k) = 0 /\ Start!Bit(mask, k) = 0 /\ Start!Bit(x, k) \in {0, 1}
      BY <1>2, <1>5, <1>6, <2>2
    <3> QED BY <3>1
  <2> QED BY <2>1, <2>2
<1>8. ASSUME NEW y \in 0..mask, And(y) PROVE y = low
  <2>1. \A k \in 0..(b - 1) : Start!Bit(y, k) = Start!Bit(low, k)
    <3> SUFFICES ASSUME NEW k \in 0..(b - 1) PROVE Start!Bit(y, k) = Start!Bit(low, k)
      OBVIOUS
    <3>1. k \in 0..mask
      BY <1>1, <1>2
    <3>2. Start!Bit(y, k) = Start!Bit(low, k)
      BY <1>7, <1>8, <3>1
    <3> QED BY <3>2
  <2>2. y \in 0..(2^b - 1) /\ low \in 0..(2^b - 1)
    BY <1>2 DEF mask
  <2> HIDE DEF And
  <2> QED BY <2>1, <2>2, BitsDetermine
<1>9. Start!Masked(x, mask) = CHOOSE y \in 0..mask : And(y)
  BY DEF Start!Masked
<1> HIDE DEF And
<1>10. Start!Masked(x, mask) = low
  BY <1>2, <1>7, <1>8, <1>9
<1> QED BY <1>2, <1>10 DEF mask, low

-------------------------------------------------------------------------------
(* The geometry                                                                *)

(* Three numbers that the constructor of CacheConstants can divide by.         *)
Fits(s, a, l) ==
  /\ s \in Nat /\ a \in Nat /\ l \in Nat
  /\ a * l # 0 /\ s >= a * l

(* Then there is a set, and the sets do not exceed the cache.                  *)
LEMMA SetsFit ==
  ASSUME NEW s, NEW a, NEW l, Fits(s, a, l)
  PROVE  /\ a \in Nat \ {0} /\ l \in Nat \ {0}
         /\ s \div (a * l) \in Nat \ {0}
         /\ \A block \in Nat : block <= l => (s \div (a * l)) * a * block <= s
<1>1. a \in Nat \ {0} /\ l \in Nat \ {0} /\ s \in Nat
  <2>1. CASE a = 0
    BY <2>1 DEF Fits
  <2>2. CASE l = 0
    BY <2>2 DEF Fits
  <2> QED BY <2>1, <2>2 DEF Fits
<1> DEFINE v == a * l
<1>2. v \in Nat \ {0} /\ v <= s
  BY <1>1 DEF Fits
<1>3. PICK n \in Nat, r \in 0..(v - 1) : s = v * n + r /\ s \div v = n
  <2> HIDE DEF v
  <2> QED BY <1>1, <1>2, DivHas
<1>4. n # 0
  <2>1. ASSUME n = 0 PROVE FALSE
    <3>1. s = r
      <4> HIDE DEF v
      <4> QED BY <1>2, <1>3, <2>1
    <3> HIDE DEF v
    <3> QED BY <1>2, <3>1
  <2> QED BY <2>1
<1>5. ASSUME NEW block \in Nat, block <= l PROVE n * a * block <= s
  <2>1. n * a \in Nat
    BY <1>1
  <2>2. (n * a) * block <= (n * a) * l
    <3> DEFINE m == n * a
    <3> HIDE DEF m
    <3>1. m \in Nat
      BY <2>1 DEF m
    <3>2. m * block <= m * l
      BY <1>1, <1>5, <3>1, Larger
    <3> QED BY <3>2 DEF m
  <2>3. (n * a) * l = v * n
    BY <1>1
  <2>4. v * n \in Nat /\ v * n <= s
    <3> HIDE DEF v
    <3>1. v * n \in Nat
      BY <1>2
    <3> QED BY <1>3, <3>1
  <2>5. (n * a) * block \in Nat
    <3> DEFINE m == n * a
    <3> HIDE DEF m
    <3>1. m \in Nat
      BY <2>1 DEF m
    <3>2. m * block \in Nat
      BY <3>1
    <3> QED BY <3>2 DEF m
  <2> DEFINE x == (n * a) * block
             y == (n * a) * l
             z == v * n
  <2> HIDE DEF x, y, z, v
  <2>6. x <= z
    BY <2>2, <2>3 DEF x, y, z
  <2>7. x <= s
    BY <2>4, <2>5, <2>6, <1>1 DEF x, z
  <2> QED BY <2>7 DEF x
<1> QED BY <1>1, <1>3, <1>4, <1>5

(* Once there is a geometry, it is that of the arguments, and they fit.        *)
Sized ==
  constants # <<>> => constants = Start!Geometry(args) /\ Fits(args.size, args.assoc, args.lineSize)

(* The arguments are natural numbers.                                          *)
LEMMA ArgsTyped ==
  ASSUME StartInv
  PROVE  args.size \in Nat /\ args.assoc \in Nat /\ args.lineSize \in Nat
BY CommandLineAssumption DEF StartInv, CommandLineGiven

(* The constructor sizes the geometry, and nothing changes it.                 *)
LEMMA NextSized == StartInv /\ Sized /\ [ProgramNext]_<<vars, startVars>> => Sized'
<1> SUFFICES ASSUME StartInv, Sized, [ProgramNext]_<<vars, startVars>> PROVE Sized'
  OBVIOUS
<1>1. CASE UNCHANGED <<args, constants>>
  BY <1>1 DEF Sized, Fits, Start!Geometry, Start!ProtocolOf, Start!Log2, Start!TagMaskOf
<1>2. CASE Start!Configure
  <2>1. /\ args' = args /\ constants' = Start!Geometry(args)
        /\ args.assoc * args.lineSize # 0 /\ args.size >= args.assoc * args.lineSize
    BY <1>2 DEF Start!Configure
  <2>2. Fits(args.size, args.assoc, args.lineSize)
    BY <2>1, ArgsTyped DEF Fits
  <2> QED BY <2>1, <2>2 DEF Sized, Fits, Start!Geometry, Start!ProtocolOf, Start!Log2, Start!TagMaskOf
<1>3. [ProgramNext]_<<vars, startVars>> => UNCHANGED <<args, constants>> \/ Start!Configure
  BY DEF ProgramNext, Load, Start!Next, Start!Usage, Start!Misconfigure, Start!Open,
         Start!ReadLine, Start!Ready, HandOut, HandOutNowhere, Run, Elsewhere, startVars
<1> QED BY <1>1, <1>2, <1>3

(* And such a geometry is sound.                                               *)
LEMMA SizedIsSound ==
  ASSUME Sized, constants # <<>>
  PROVE  GeometrySound
<1> DEFINE s == args.size
           a == args.assoc
           l == args.lineSize
           n == s \div (a * l)
           b == Start!Log2(n)
           k == Start!Log2(l)
<1>1. /\ Fits(s, a, l)
      /\ constants.numSets = n /\ constants.numLinesInSet = a
      /\ constants.numBytesBits = k /\ constants.tagMask = Start!TagMaskOf(b)
  BY DEF Sized, Start!Geometry
<1> HIDE DEF s, a, l
<1>2. /\ a \in Nat \ {0} /\ l \in Nat \ {0} /\ n \in Nat \ {0}
      /\ \A block \in Nat : block <= l => n * a * block <= s
  BY <1>1, SetsFit
<1> HIDE DEF n
<1>3. b \in Nat /\ 2^b <= n /\ n < 2^(b + 1) /\ k \in Nat /\ 2^k <= l
  BY <1>2, Log2Is
<1> HIDE DEF b, k
<1>4. /\ 2^b \in Nat \ {0} /\ 2^(b + 1) = 2 * 2^b /\ 2^k \in Nat \ {0}
      /\ constants.tagMask = 2^b - 1
  <2>1. constants.tagMask = Start!TagMaskOf(b) /\ b \in Nat /\ k \in Nat
    BY <1>1, <1>3 DEF b
  <2>2. Start!TagMaskOf(b) = 2^b - 1
    BY <2>1, TagMaskIs
  <2>3. 2^b \in Nat \ {0} /\ 2^(b + 1) = 2 * 2^b
    BY <2>1, PowersOfTwo
  <2>4. 2^k \in Nat \ {0}
    BY <2>1, PowersOfTwo
  <2> QED BY <2>1, <2>2, <2>3, <2>4
<1>5. /\ constants.tagMask < constants.numSets
      /\ constants.numSets < 2 * (constants.tagMask + 1)
  <2>1. constants.tagMask = 2^b - 1 /\ constants.numSets = n
    BY <1>1, <1>4
  <2>2. n < 2 * 2^b
    BY <1>3, <1>4
  <2>3. 2^b - 1 < n /\ (2^b - 1) + 1 = 2^b
    BY <1>2, <1>3, <1>4
  <2> QED BY <2>1, <2>2, <2>3
<1>6. constants.numSets * constants.numLinesInSet * 2^constants.numBytesBits <= args.size
  <2>1. n * a * 2^k <= s
    BY <1>2, <1>3, <1>4
  <2> QED BY <1>1, <2>1, Zenon DEF s
<1>7. ASSUME NEW x \in 0..(2 * args.size)
      PROVE  /\ Start!SetIndex(x) < constants.numSets
             /\ Start!SetIndex(x) = Start!TagOf(x) % (constants.tagMask + 1)
             /\ Start!TagOf(x + 1) = Start!TagOf(x) <=> (x + 1) % 2^constants.numBytesBits # 0
  <2>1. x \in Nat
    BY <1>1 DEF Fits, s
  <2>2. Start!TagOf(x) = x \div 2^k /\ Start!TagOf(x + 1) = (x + 1) \div 2^k
    BY <1>1, Zenon DEF Start!TagOf
  <2>3. x \div 2^k \in Nat
    BY <1>4, <2>1, DivHas
  <2> DEFINE t == x \div 2^k
  <2> HIDE DEF t
  <2>4. Start!Masked(t, 2^b - 1) = t % 2^b /\ t % 2^b \in 0..(2^b - 1)
    BY <1>3, <2>3, MaskedIs DEF t
  <2>5. Start!SetIndex(x) = t % 2^b
    BY <1>4, <2>2, <2>4 DEF Start!SetIndex, t
  <2>6. constants.tagMask + 1 = 2^b
    BY <1>4
  <2>7. Start!TagOf(x + 1) = Start!TagOf(x) <=> (x + 1) % 2^k # 0
    BY <1>4, <2>1, <2>2, DivNext
  <2>8. Start!SetIndex(x) < constants.numSets
    BY <1>1, <1>2, <1>3, <1>4, <2>4, <2>5
  <2>9. Start!SetIndex(x) = Start!TagOf(x) % (constants.tagMask + 1)
    BY <2>2, <2>5, <2>6, Zenon DEF t
  <2> QED BY <1>1, <2>7, <2>8, <2>9
<1> QED BY <1>5, <1>6, <1>7 DEF GeometrySound

(* Whatever the command line: a geometry that the program goes on with has a   *)
(* mask that selects existing sets and more than half of them, lines that fit  *)
(* the cache, and one tag per block.                                           *)
THEOREM EveryGeometrySound == ProgramSpec => []GeometrySound
<1>1. ProgramInit => StartInv /\ Sized
  BY InitStartInv DEF ProgramInit, Start!Init, Sized
<1>2. Sized => GeometrySound
  BY SizedIsSound DEF GeometrySound
<1> QED BY <1>1, <1>2, NextStartInv, NextSized, PTL DEF ProgramSpec

-------------------------------------------------------------------------------
(* What the other proofs say of the whole program                              *)

(* From the command line to the end, the handshake, the sets and, under each   *)
(* protocol, the counters of the machine are what SmpCache's theorems say.     *)
THEOREM ProgramIsSafe ==
  ProgramSpec => [](/\ TypeOK /\ Handshake /\ SetsSound
                    /\ IF Protocol = "DRAGON" THEN DragonRequestsCounted ELSE AccessesCounted)
<1> DEFINE AsksIfDragon == Protocol = "DRAGON" => AsksInv /\ UpdateEnds
<1>1. AccountInv /\ AsksIfDragon =>
        /\ TypeOK /\ Handshake /\ SetsSound
        /\ IF Protocol = "DRAGON" THEN DragonRequestsCounted ELSE AccessesCounted
  <2>1. AccountInv => /\ TypeOK /\ Handshake /\ SetsSound
                      /\ Protocol # "DRAGON" => AccessesCounted
    BY DEF AccountInv, SmpInv, CtlInv, LinesInv, StatsTyped, TypeOK, SoundCache, SoundSet,
       SetsSound, CountsInv, Accounted, Balanced, AccessesCounted
  <2> QED BY <2>1, AsksCounted
<1>2. Init => AsksIfDragon
  BY InitAsks
<1>3. AccountInv /\ AsksIfDragon /\ [Next]_vars => AsksIfDragon'
  BY NextAsks DEF AccountInv
<1> HIDE DEF AsksIfDragon
<1> QED BY <1>1, <1>2, <1>3, ProgramRunsTheMachine, InitAccountInv, NextAccountInv, PTL

(* The program implements the protocol: what the command line and the trace    *)
(* file make of it, the protocol allows.                                       *)
THEOREM ProgramRefines == ASSUME NarrowTags PROVE ProgramSpec => ImplementsCoherence
<1>1. Init => MachineInv
  BY InitSmpInv DEF MachineInv, Init, RequestInv
<1>2. MachineInv /\ [Next]_vars => MachineInv'
  BY NextSmpInv, NextRequest DEF MachineInv, SmpInv
<1>3. MachineInv /\ [Next]_vars => [Abstract!Next]_(Abstract!vars)
  BY NextMaps DEF MachineInv
<1> QED BY <1>1, <1>2, <1>3, InitMaps, ProgramRunsTheMachine, PTL
        DEF ImplementsCoherence, Abstract!Spec

(* And its caches replace the least recently used block, with the geometry     *)
(* the command line gives them and the jobs the trace file asks for.           *)
THEOREM ProgramImplementsLru == ASSUME NarrowTags PROVE ProgramSpec => ImplementsLru
<1>1. Init => MachineInv /\ TimesInv /\ Lru!Init
  BY InitSmpInv, InitOrders DEF MachineInv, Init, RequestInv
<1>2. MachineInv /\ [Next]_vars => MachineInv'
  BY NextSmpInv, NextRequest DEF MachineInv, SmpInv
<1>3. MachineInv /\ TimesInv /\ [Next]_vars => [Lru!Next]_(Lru!vars) /\ TimesInv'
  BY NextOrders
<1> QED BY <1>1, <1>2, <1>3, ProgramRunsTheMachine, PTL DEF ImplementsLru, Lru!Spec
===============================================================================
