------------------------------- MODULE Startup -------------------------------
(***************************************************************************)
(* From the command line to running threads: what Profile::parse_options   *)
(* makes of the options and what Job::run_job does before its threads work *)
(* (checking and laying out the target files, handing targets to threads,  *)
(* pinning threads to CPUs).  The files outlive the process, which can be  *)
(* killed between any two system calls and started again with other        *)
(* options.                                                                *)
(***************************************************************************)

EXTENDS Options, FiniteSetsExt, SequencesExt

CONSTANTS
  Files,        \* paths of regular files
  Devices,      \* paths of block devices
  DeviceSize,   \* the size sysfs tells of a device
  FileSizes,    \* sizes files may have before diskspd is first run, or Absent
  Online,       \* the CPUs that are online
  SectorSize,   \* what O_DIRECT asks multiples of (512 in the code)
  FillBuf,      \* bytes written at a time to lay out a file (64 MiB in the code)
  Commands      \* the command lines considered

Absent == -1
Paths == Files \cup Devices

ASSUME StartupAssumption ==
  /\ Files \cap Devices = {}
  /\ DeviceSize \in 0 .. OffHalf - 1
  /\ FileSizes \subseteq (0 .. OffHalf - 1) \cup {Absent}
  /\ Online \subseteq Nat /\ Online # {}
  /\ {SectorSize, FillBuf} \subseteq Nat \ {0}
  /\ Commands \subseteq CommandLine(Paths)

VARIABLES
  file,      \* the size of each file, on disk
  pc,        \* where the process is, "exited" when there is none
  cmd,       \* the Settings parse_options made of its options
  targets,   \* the Targets set up by parse_options, in order
  index,     \* of the target or thread at hand, in each of the loops
  pos,       \* file position, while a file is laid out
  remaining, \* bytes still to be laid out
  warned,    \* whether the process said that a file was not set up
  threads,   \* the ThreadParams: the targets of each thread, its rel_thread_id
  total_overlap,  \* operations the engine is told to expect
  cpu        \* the CPU of each thread started so far

process == <<cmd, targets, index, pos, remaining, warned, threads, total_overlap, cpu>>
vars == <<file, pc, process>>

-----------------------------------------------------------------------------
(***************************************************************************)
(* Targets.                                                                *)
(***************************************************************************)

(* Threads that work on each target.                                        *)
ThreadsPerTarget(c) ==
  IF c.use_total_threads THEN c.total_threads ELSE c.threads_per_target

Affinity(c) == IF c.affinity_given THEN CpuSet(c.affinity) ELSE Online

(* Mutant: any file that is there already will do.                          *)
NeedsCreate_Missing(p, size) == file[p] = Absent

(* Mutant: the file is made again in any case.                              *)
NeedsCreate_Always(p, size) == TRUE

(* With -c a file is made, unless there is one that is large enough.        *)
NeedsCreate(p, size) == ~(file[p] # Absent /\ file[p] >= size)

(* The Target parse_options makes of path p, whose size is read with stat.  *)
TargetOf(c, p) ==
  LET size == IF c.create_file THEN c.size
              ELSE IF p \in Devices THEN DeviceSize ELSE file[p]
  IN  [path |-> p, create_file |-> c.create_file /\ NeedsCreate(p, c.size),
       size |-> size, max_size |-> IF c.max_size = 0 THEN size ELSE c.max_size,
       base_offset |-> c.base_offset, thread_offset |-> c.thread_offset,
       block_size |-> c.block_size, stride |-> c.stride,
       direct |-> c.direct, sector_size |-> SectorSize]

(* -c is not for devices, and without it the file must be there; what is    *)
(* used of it must not be larger than the file, nor smaller than a block.   *)
GoodPath(c, p) ==
  p \in IF c.create_file THEN Files ELSE Devices \cup {f \in Files : file[f] # Absent}
GoodSize(t) == t.max_size <= t.size /\ BlockFits(t)

-----------------------------------------------------------------------------
(***************************************************************************)
(* The process.                                                            *)
(***************************************************************************)

(* Between runs nothing of a process is left.                               *)
Init ==
  /\ file \in [Files -> FileSizes]
  /\ pc = "exited"
  /\ cmd = <<>> /\ targets = <<>> /\ index = 0 /\ pos = 0 /\ remaining = 0
  /\ warned = FALSE /\ threads = <<>> /\ total_overlap = 0 /\ cpu = <<>>

(* The process ends, successfully or not.                                   *)
Exit ==
  /\ pc' = "exited"
  /\ cmd' = <<>> /\ targets' = <<>> /\ index' = 0 /\ pos' = 0 /\ remaining' = 0
  /\ warned' = FALSE /\ threads' = <<>> /\ total_overlap' = 0 /\ cpu' = <<>>

(* A new process parses the command line c.  A refused one ends at once,    *)
(* as it does when the CPUs or the devices of the machine cannot be read.   *)
Start(c) ==
  /\ pc = "exited"
  /\ Accepted(c)
  /\ pc' = "stat"
  /\ cmd' = Settings(c)
  /\ index' = 1
  /\ UNCHANGED <<file, targets, pos, remaining, warned, threads, total_overlap, cpu>>

(* parse_options makes the next Target, or fails: when stat does, or the    *)
(* target cannot be used.                                                   *)
Stat ==
  /\ pc = "stat" /\ index <= Len(cmd.paths)
  /\ \/ Exit /\ UNCHANGED file
     \/ LET p == cmd.paths[index] IN
          /\ GoodPath(cmd, p)
          /\ GoodSize(TargetOf(cmd, p))
          /\ targets' = Append(targets, TargetOf(cmd, p))
          /\ index' = index + 1
          /\ UNCHANGED <<file, pc, cmd, pos, remaining, warned, threads, total_overlap, cpu>>

(* All options are parsed; run_job sets up the target files.                *)
Parsed ==
  /\ pc = "stat" /\ index > Len(cmd.paths)
  /\ pc' = "setup"
  /\ index' = 1
  /\ UNCHANGED <<file, cmd, targets, pos, remaining, warned, threads, total_overlap, cpu>>

(* The checks of a target, which come after the targets before it were laid *)
(* out.                                                                     *)
Check ==
  /\ pc = "setup" /\ index <= Len(targets)
  /\ LET t == targets[index] IN
       IF DirectAligned(t) /\ ThreadsFit(t, ThreadsPerTarget(cmd))
       THEN IF t.create_file
            THEN pc' = "remove" /\ UNCHANGED process
            ELSE /\ index' = index + 1
                 /\ UNCHANGED <<pc, cmd, targets, pos, remaining, warned, threads, total_overlap, cpu>>
       ELSE Exit
  /\ UNCHANGED file

(* remove, which may fail, but not because there is no file.                *)
RemoveOld ==
  /\ pc = "remove"
  /\ \/ /\ file' = [file EXCEPT ![targets[index].path] = Absent]
        /\ pc' = "create"
        /\ UNCHANGED process
     \/ Exit /\ UNCHANGED file

(* The bytes to lay out, which begin at the base offset.                    *)
ToLayOut(t) == t.max_size - t.base_offset

(* The file is created empty, and its position set to the base offset.      *)
(* When lseek fails run_job says so and goes on.                            *)
Create ==
  /\ pc = "create"
  /\ \/ LET t == targets[index] IN
          /\ file' = [file EXCEPT ![t.path] = 0]
          /\ \/ pos' = t.base_offset /\ UNCHANGED warned
             \/ pos' = 0 /\ warned' = TRUE
          /\ remaining' = ToLayOut(t)
          /\ pc' = "layout"
          /\ UNCHANGED <<cmd, targets, index, threads, total_overlap, cpu>>
     \/ Exit /\ UNCHANGED file

(* Mutant: whole buffers are written.                                       *)
Chunk_Whole(left) == FillBuf

(* Mutant: the rest of a buffer is written, which is never.                 *)
Chunk_Rest(left) == left % FillBuf

Chunk(left) == IF FillBuf < left THEN FillBuf ELSE left

(* One write.  One that writes less than it should ends the process.        *)
Write ==
  /\ pc = "layout" /\ remaining # 0
  /\ LET p == targets[index].path
         Written(n) == file' = IF n = 0 THEN file
                               ELSE [file EXCEPT ![p] = Max({@, pos + n})]
     IN  \/ /\ Written(Chunk(remaining))
            /\ pos' = pos + Chunk(remaining)
            /\ remaining' = remaining - Chunk(remaining)
            /\ UNCHANGED <<pc, cmd, targets, index, warned, threads, total_overlap, cpu>>
         \/ /\ \E n \in 0 .. Chunk(remaining) - 1 : Written(n)
            /\ Exit

LaidOut ==
  /\ pc = "layout" /\ remaining = 0
  /\ pc' = "setup"
  /\ index' = index + 1
  /\ pos' = 0
  /\ UNCHANGED <<file, cmd, targets, remaining, warned, threads, total_overlap, cpu>>

-----------------------------------------------------------------------------
(***************************************************************************)
(* Threads.                                                                *)
(***************************************************************************)

(* Mutant: rel_thread_id is the number of the thread in the job.            *)
ThreadParams_Absolute(c) ==
  IF c.use_total_threads
  THEN [i \in 1 .. c.total_threads |->
          [targets |-> [j \in 1 .. Len(c.paths) |-> j], rel_thread_id |-> i - 1]]
  ELSE LET n == ThreadsPerTarget(c)
       IN  [i \in 1 .. Len(c.paths) * n |->
              [targets |-> <<(i - 1) \div n + 1>>, rel_thread_id |-> i - 1]]

(* With -F each thread works on all targets; otherwise the threads are      *)
(* handed out target by target, n to each.                                  *)
ThreadParams(c) ==
  IF c.use_total_threads
  THEN [i \in 1 .. c.total_threads |->
          [targets |-> [j \in 1 .. Len(c.paths) |-> j], rel_thread_id |-> i - 1]]
  ELSE LET n == ThreadsPerTarget(c)
       IN  [i \in 1 .. Len(c.paths) * n |->
              [targets |-> <<(i - 1) \div n + 1>>, rel_thread_id |-> (i - 1) % n]]

(* All files are set up; devices and their schedulers are looked up.        *)
AllSetUp ==
  /\ pc = "setup" /\ index > Len(targets)
  /\ pc' = "lookup"
  /\ index' = 1
  /\ UNCHANGED <<file, cmd, targets, pos, remaining, warned, threads, total_overlap, cpu>>

(* The process ends if the device of a target is not among those it found   *)
(* in /sys when it started, or has no scheduler to read, as a file system   *)
(* of its own may not: the files have been laid out by then.                *)
LookUp ==
  /\ pc = "lookup" /\ index <= Len(targets)
  /\ \/ /\ index' = index + 1
        /\ UNCHANGED <<pc, cmd, targets, pos, remaining, warned, threads, total_overlap, cpu>>
     \/ Exit
  /\ UNCHANGED file

(* Targets are handed out to threads, and the engine is started, which may  *)
(* fail.                                                                    *)
Assign ==
  /\ pc = "lookup" /\ index > Len(targets)
  /\ \/ /\ pc' = "start"
        /\ threads' = ThreadParams(cmd)
        /\ total_overlap' = (Len(targets) * ThreadsPerTarget(cmd) * cmd.overlap) % UIntMod
        /\ index' = 1
        /\ UNCHANGED <<cmd, targets, pos, remaining, warned, cpu>>
     \/ Exit
  /\ UNCHANGED file

(* Mutant: the first CPU is not come back to.                               *)
CpuAfter_Sticks(cpus, n) ==
  IF \E c \in cpus : c > n THEN Min({c \in cpus : c > n}) ELSE n

(* The iterator over affinity_cpus, which goes round.                       *)
CpuAfter(cpus, n) ==
  IF \E c \in cpus : c > n THEN Min({c \in cpus : c > n}) ELSE Min(cpus)

(* The next thread is created, which may fail, and pinned to the next CPU,  *)
(* which does when that is not online.  When the set of CPUs is empty, the  *)
(* iterator is the end: what it points to (in libstdc++ the size of the     *)
(* set, 0) is taken for a CPU, and to increment it is to loop forever.      *)
StartThread ==
  /\ pc = "start" /\ index <= Len(threads)
  /\ LET cpus == Affinity(cmd)
         next == IF cpus = {} THEN 0
                 ELSE IF index = 1 THEN Min(cpus) ELSE CpuAfter(cpus, cpu[index - 1])
     IN  \/ /\ cmd.disable_affinity \/ next \in Online
            /\ pc' = IF cpus = {} /\ ~cmd.disable_affinity THEN "stuck" ELSE "start"
            /\ cpu' = Append(cpu, IF cmd.disable_affinity THEN Absent ELSE next)
            /\ index' = index + 1
            /\ UNCHANGED <<cmd, targets, pos, remaining, warned, threads, total_overlap>>
         \/ Exit
  /\ UNCHANGED file

(* All threads are there; what follows is JobRun's.                         *)
Run ==
  /\ pc = "start" /\ index > Len(threads)
  /\ pc' = "running"
  /\ UNCHANGED <<file, process>>

(* The job is over.                                                         *)
Finish == pc = "running" /\ Exit /\ UNCHANGED file

(* The process is killed.                                                   *)
Kill == pc # "exited" /\ Exit /\ UNCHANGED file

Step ==
  \/ Stat \/ Parsed \/ Check \/ RemoveOld \/ Create \/ Write \/ LaidOut
  \/ AllSetUp \/ LookUp \/ Assign \/ StartThread \/ Run

Next == (\E c \in Commands : Start(c)) \/ Step \/ Finish \/ Kill

SafetySpec == Init /\ [][Next]_vars

(* The process gets on while it is alive; nobody has to start or kill it.   *)
Spec == SafetySpec /\ WF_vars(Step)

-----------------------------------------------------------------------------
(***************************************************************************)
(* Properties.                                                             *)
(***************************************************************************)

Target ==
  [path : Paths, create_file : BOOLEAN, size : Nat, max_size : Nat, base_offset : Nat,
   thread_offset : Nat, block_size : Nat, stride : Nat, direct : BOOLEAN, sector_size : Nat]

AllSettings == {Settings(c) : c \in {d \in Commands : Accepted(d)}}

(* Bytes left to lay out are never negative: the loop of run_job, which     *)
(* ends when they are 0, would not end.                                     *)
TypeOK ==
  /\ file \in [Files -> Nat \cup {Absent}]
  /\ pc \in {"exited", "stat", "setup", "remove", "create", "layout", "lookup",
             "start", "stuck", "running"}
  /\ pc # "exited" => cmd \in AllSettings
  /\ targets \in Seq(Target)
  /\ {index, pos, remaining, total_overlap} \subseteq Nat
  /\ warned \in BOOLEAN
  /\ threads \in Seq([targets : Seq(Nat \ {0}), rel_thread_id : Nat])
  /\ cpu \in Seq(Nat \cup {Absent})

(* When threads run, every target file is at least as long as the part of   *)
(* it they work on (-f, job.cc:146), whatever earlier processes left of it, *)
(* killed or failed half way as they may have been, and even if it is named *)
(* twice; unless the process has said that it could not set a file up.      *)
FilesHoldTargets ==
  (pc = "running" /\ ~warned) =>
    \A i \in DOMAIN targets :
      targets[i].path \in Files => file[targets[i].path] >= targets[i].max_size

(* Benchmarks run on files that matter: a file is removed or written to     *)
(* only with -c, and only if it was shorter than that (profile.cc:352), or  *)
(* the same process made it for a target before.                            *)
OnlyShortFilesReplaced ==
  [][\A f \in Files : file'[f] # file[f] =>
       /\ cmd.create_file
       /\ \/ file[f] < cmd.size
          \/ \E j \in DOMAIN targets :
               j < index /\ targets[j].path = f /\ targets[j].create_file]_vars

(* rel_thread_id places a thread on its target (target.h:228): of the       *)
(* threads of a target no two have the same place.  "check that none of our *)
(* starting offsets for threads would be past the max size" (job.cc:95):    *)
(* this looks at the last of them only, and holds of all, for the whole     *)
(* block each begins with, if and only if the product in the check does not *)
(* overflow.  The engine is told of as many operations as these threads     *)
(* submit, if there are not more of them than an unsigned int can count.    *)
StartsApart ==
  pc \in {"start", "running"} =>
    LET Of(j) == {i \in DOMAIN threads : j \in Range(threads[i].targets)}
        pairs == UNION {{i} \X DOMAIN threads[i].targets : i \in DOMAIN threads}
    IN
      /\ \A j \in DOMAIN targets :
           /\ Of(j) # {} \/ ThreadsPerTarget(cmd) = 0
           /\ \A h, i \in Of(j) :
                threads[h].rel_thread_id = threads[i].rel_thread_id => h = i
           /\ PlacesFit(targets[j], ThreadsPerTarget(cmd)) <=>
                \A i \in Of(j) : PlaceInside(targets[j], threads[i].rel_thread_id)
      /\ total_overlap = (cmd.overlap * Cardinality(pairs)) % UIntMod

(* "threads are affinitized round-robin" (options.h:168), over the CPUs -a  *)
(* names or all that are online: at any time no CPU has two threads more    *)
(* than another.  Texts of -a that name no CPU are out of it.               *)
RoundRobin ==
  (pc \in {"start", "running"} /\ ~cmd.disable_affinity
     /\ (cmd.affinity_given => WellFormed(cmd.affinity))) =>
    LET cpus    == IF cmd.affinity_given THEN Named(cmd.affinity) ELSE Online
        load(c) == Cardinality({i \in DOMAIN cpu : cpu[i] = c})
    IN  /\ Range(cpu) \subseteq cpus
        /\ \A c, d \in cpus : load(c) <= load(d) + 1

(* Setting up ends, with threads that run or a process that is gone, if     *)
(* there is a CPU to run on or none is asked for (-n).                      *)
SetupEnds ==
  (pc = "stat" /\ (Affinity(cmd) # {} \/ cmd.disable_affinity)) ~>
    pc \in {"running", "exited"}

(* "Omit the argument to align to block size by default" (options.h:410):   *)
(* with -r and no argument, random I/O is aligned to blocks.  It is not:    *)
(* the stride stays what it is in a new Target (profile.cc:142).            *)
RandomAlignDefault ==
  \A c \in Commands :
    (pc = "running" /\ cmd = Settings(c) /\ Given(c, "r") /\ get_arg(c, "r") = <<>>) =>
      \A j \in DOMAIN targets : targets[j].stride = targets[j].block_size
=============================================================================
