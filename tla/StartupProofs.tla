---------------------------- MODULE StartupProofs ----------------------------
(***************************************************************************)
(* Theorems about Startup for any files, devices, sizes and command lines: *)
(* types, what the target files hold when threads run and which files are  *)
(* replaced, whenever earlier processes failed or were killed, the places  *)
(* the threads start from and the CPUs they are pinned to.                 *)
(***************************************************************************)

EXTENDS Startup, DataLemmas

-----------------------------------------------------------------------------
(***************************************************************************)
(* What an accepted command line is worth.                                 *)
(***************************************************************************)

(* The constants, as numbers.                                               *)
LEMMA Numbers ==
  /\ OffHalf \in Nat \ {0} /\ UIntMod \in Nat \ {0}
  /\ Kibi \in Nat \ {0} /\ DefaultBlock \in Nat \ {0}
  /\ SectorSize \in Nat \ {0} /\ FillBuf \in Nat \ {0} /\ DeviceSize \in Nat
  /\ Absent = -1
BY WidthAssumption, OptionsAssumption, StartupAssumption
DEF WidthAssumption, OptionsAssumption, StartupAssumption, Absent

(* A number converted to an off_t is one.                                   *)
LEMMA OffIsInt ==
  ASSUME NEW x \in Int
  PROVE  Off(x) \in -OffHalf .. OffHalf - 1
<1>1. PICK h \in Nat \ {0} : h = OffHalf
  BY Numbers
<1>2. (x + h) % (2 * h) \in 0 .. 2 * h - 1
  OBVIOUS
<1> QED
  BY <1>1, <1>2 DEF Off, Signed

(* What stands in a command line.                                           *)
LEMMA CommandTyped ==
  ASSUME NEW c \in Commands
  PROVE  /\ c.paths \in Seq(Paths)
         /\ \A j \in DOMAIN c.opts : c.opts[j].arg \in Seq(Int) /\ c.opts[j].key \in Keys
<1>1. c.paths \in Seq(Paths) /\ c.opts \in Seq([key : Keys, arg : Seq(Int)])
  BY StartupAssumption DEF StartupAssumption, CommandLine
<1>2. \A j \in DOMAIN c.opts : c.opts[j] \in [key : Keys, arg : Seq(Int)]
  BY <1>1, ElementOfSeq, LenProperties
<1> QED
  BY <1>1, <1>2

(* The argument of an option is that of an option in the line.              *)
LEMMA ArgIsThere ==
  ASSUME NEW c \in Commands, NEW key
  PROVE  /\ get_arg(c, key) \in Seq(Int)
         /\ get_arg(c, key) # <<>> =>
              \E j \in DOMAIN c.opts : c.opts[j].key = key /\ c.opts[j].arg = get_arg(c, key)
<1>1. CASE Given(c, key)
  <2>1. PICK j \in DOMAIN c.opts :
          c.opts[j].key = key /\ get_arg(c, key) = c.opts[j].arg
    BY <1>1 DEF Given, get_arg
  <2> QED
    BY <2>1, CommandTyped
<1>2. CASE ~Given(c, key)
  BY <1>2 DEF get_arg
<1> QED
  BY <1>1, <1>2

(* strtoull.                                                                *)
LEMMA Digits ==
  ASSUME NEW n \in Nat
  PROVE  strtoull(n) \in Nat
BY Numbers DEF strtoull

(* A size with its suffix is an off_t.                                      *)
LEMMA ByteSize ==
  ASSUME NEW t \in Seq(Int), valid_byte_size(t), NEW b \in Nat
  PROVE  byte_size_from_arg(t, b) \in Int /\ byte_size_from_arg(t, b) < OffHalf
<1>1. 1 \in DOMAIN t /\ t[1] \in Nat
  BY ElementOfSeq, LenProperties DEF valid_byte_size, At, Other
<1>2. strtoull(t[1]) \in Nat
  BY <1>1, Digits
<1>3. getSizeMultiplier(t[2], b) \in Nat
  BY Numbers DEF getSizeMultiplier
<1>4. PICK k \in Nat : k = IF Len(t) = 1 THEN 1 ELSE getSizeMultiplier(t[2], b)
  BY <1>3
<1>5. PICK n \in Nat : n = strtoull(t[1])
  BY <1>2
<1>6. byte_size_from_arg(t, b) = Off(n * k) /\ n * k \in Int
  BY <1>4, <1>5 DEF byte_size_from_arg
<1> QED
  BY <1>6, OffIsInt, Numbers

(* An accepted size is a number, whatever it is when there is none.         *)
LEMMA SizeAccepted ==
  ASSUME NEW c \in Commands, Accepted(c), NEW key \in BYTE_SIZE, NEW b \in Nat, NEW d \in Nat,
         b = IF key = "b" THEN 1 ELSE block_size(c)
  PROVE  /\ arg_to_number(c, key, b, d) \in Nat
         /\ arg_to_number(c, key, b, d) < OffHalf \/ arg_to_number(c, key, b, d) = d
<1>1. CASE get_arg(c, key) = <<>>
  BY <1>1 DEF arg_to_number
<1>2. CASE get_arg(c, key) # <<>>
  <2>1. get_arg(c, key) \in Seq(Int) /\ valid_byte_size(get_arg(c, key))
    <3>1. PICK j \in DOMAIN c.opts : c.opts[j].key = key /\ c.opts[j].arg = get_arg(c, key)
      BY <1>2, ArgIsThere
    <3>2. parse_arg(c.opts[j])
      BY DEF Accepted, parse_args
    <3>3. get_arg(c, key) \in Seq(Int)
      BY ArgIsThere
    <3> QED
      BY <1>2, <3>1, <3>2, <3>3 DEF parse_arg
  <2>2. key \notin NUMERIC
    BY DEF BYTE_SIZE, NUMERIC
  <2>3. arg_to_number(c, key, b, 0) >= 0
    BY <2>2 DEF Accepted, Converts
  <2>4. /\ arg_to_number(c, key, b, d) = arg_to_number(c, key, b, 0)
        /\ arg_to_number(c, key, b, 0) \in Int /\ arg_to_number(c, key, b, 0) < OffHalf
    BY <1>2, <2>1, <2>2, ByteSize DEF arg_to_number
  <2> QED
    BY <2>3, <2>4
<1> QED
  BY <1>1, <1>2

(* So is an accepted count, and but for the seed it fits an unsigned int.   *)
LEMMA CountAccepted ==
  ASSUME NEW c \in Commands, Accepted(c), NEW key \in NUMERIC, NEW d \in Nat
  PROVE  LET n == arg_to_number(c, key, block_size(c), d)
         IN  n \in Nat /\ (key # "z" => n < UIntMod \/ n = d)
<1> DEFINE b == block_size(c)
<1>1. CASE get_arg(c, key) = <<>>
  BY <1>1 DEF arg_to_number
<1>2. CASE get_arg(c, key) # <<>>
  <2>1. get_arg(c, key) \in Seq(Int) /\ is_numeric(get_arg(c, key))
    <3>1. PICK j \in DOMAIN c.opts : c.opts[j].key = key /\ c.opts[j].arg = get_arg(c, key)
      BY <1>2, ArgIsThere
    <3>2. parse_arg(c.opts[j])
      BY DEF Accepted, parse_args
    <3>3. get_arg(c, key) \in Seq(Int)
      BY ArgIsThere
    <3> QED
      BY <1>2, <3>1, <3>2, <3>3 DEF parse_arg
  <2>2. 1 \in DOMAIN get_arg(c, key)
    BY <1>2, <2>1, EmptySeq, LenProperties
  <2>3. get_arg(c, key)[1] \in Nat
    BY <2>1, <2>2, ElementOfSeq, LenProperties DEF is_numeric
  <2>4. arg_to_number(c, key, b, d) \in Nat
    BY <1>2, <2>3, Digits DEF arg_to_number
  <2>5. arg_to_number(c, key, b, d) = arg_to_number(c, key, b, 0)
    BY <1>2 DEF arg_to_number
  <2>6. key # "z" => arg_to_number(c, key, b, 0) < UIntMod
    <3>1. key # "b"
      BY DEF NUMERIC
    <3> QED
      BY <3>1 DEF Accepted, Converts
  <2> QED
    BY <2>4, <2>5, <2>6
<1> QED
  BY <1>1, <1>2

(* The types of what parse_options keeps.                                   *)
TypedSettings(s) ==
  /\ s.paths \in Seq(Paths) /\ s.paths # <<>>
  /\ s.block_size \in Nat /\ s.base_offset \in Nat /\ s.size \in Nat /\ s.max_size \in Nat
  /\ s.stride \in Nat /\ s.thread_offset \in Nat /\ s.overlap \in Nat
  /\ s.total_threads \in Nat /\ s.threads_per_target \in Nat
  /\ s.size < OffHalf /\ s.max_size < OffHalf /\ s.thread_offset < OffHalf
  /\ s.total_threads <= UIntMod /\ s.threads_per_target <= UIntMod
  /\ s.create_file \in BOOLEAN /\ s.direct \in BOOLEAN /\ s.use_total_threads \in BOOLEAN

(* All of them come out typed.                                              *)
LEMMA SettingsTyped ==
  ASSUME NEW c \in Commands, Accepted(c)
  PROVE  TypedSettings(Settings(c))
<1>1. block_size(c) \in Nat
  BY SizeAccepted, Numbers DEF block_size, BYTE_SIZE
<1>2. \A key \in BYTE_SIZE \ {"b"}, d \in Nat : arg_to_number(c, key, block_size(c), d) \in Nat
  BY <1>1, SizeAccepted
<1>3. \A key \in NUMERIC, d \in Nat : arg_to_number(c, key, block_size(c), d) \in Nat
  BY CountAccepted
<1>6. /\ arg_to_number(c, "c", block_size(c), 0) < OffHalf
      /\ arg_to_number(c, "f", block_size(c), 0) < OffHalf
      /\ arg_to_number(c, "T", block_size(c), 0) < OffHalf
  <2>1. ASSUME NEW key \in BYTE_SIZE \ {"b"}
        PROVE  \/ arg_to_number(c, key, block_size(c), 0) < OffHalf
               \/ arg_to_number(c, key, block_size(c), 0) = 0
    BY <1>1, SizeAccepted
  <2>2. {"c", "f", "T"} \subseteq BYTE_SIZE \ {"b"}
    BY DEF BYTE_SIZE
  <2> QED
    BY <2>1, <2>2, Numbers
<1>7. /\ arg_to_number(c, "F", block_size(c), 0) <= UIntMod
      /\ arg_to_number(c, "t", block_size(c), 1) <= UIntMod
  <2>1. /\ \/ arg_to_number(c, "F", block_size(c), 0) < UIntMod
           \/ arg_to_number(c, "F", block_size(c), 0) = 0
        /\ \/ arg_to_number(c, "t", block_size(c), 1) < UIntMod
           \/ arg_to_number(c, "t", block_size(c), 1) = 1
    BY CountAccepted DEF NUMERIC
  <2>2. /\ arg_to_number(c, "F", block_size(c), 0) \in Nat
        /\ arg_to_number(c, "t", block_size(c), 1) \in Nat
    BY <1>3 DEF NUMERIC
  <2> QED
    BY <2>1, <2>2, Numbers
<1>4. Stride(c) \in Nat
  <2>1. CASE Given(c, "r")
    BY <1>1, <1>2, <2>1, Numbers DEF Stride, BYTE_SIZE
  <2>2. CASE ~Given(c, "r") /\ StrideText(c) = <<>>
    BY <1>1, <2>2 DEF Stride
  <2>3. CASE ~Given(c, "r") /\ StrideText(c) # <<>>
    <3>1. StrideText(c) \in Seq(Int)
      <4>1. PICK t \in Seq(Int) : t = get_arg(c, "s")
        BY ArgIsThere
      <4>2. At(t, 1) = Ch.i => t # <<>>
        BY DEF At, Other, Ch
      <4> QED
        BY <4>1, <4>2, HeadTailProperties DEF StrideText
    <3>2. /\ valid_byte_size(StrideText(c))
          /\ byte_size_from_arg(StrideText(c), block_size(c)) >= 0
      BY <2>3 DEF Accepted, GoodStride
    <3>3. byte_size_from_arg(StrideText(c), block_size(c)) \in Int
      BY <1>1, <3>1, <3>2, ByteSize
    <3> QED
      BY <2>3, <3>2, <3>3 DEF Stride
  <2> QED
    BY <2>1, <2>2, <2>3
<1>5. c.paths \in Seq(Paths) /\ c.paths # <<>>
  BY CommandTyped DEF Accepted
<1> QED
  BY <1>1, <1>2, <1>3, <1>4, <1>5, <1>6, <1>7
  DEF Settings, TypedSettings, BYTE_SIZE, NUMERIC, Given, O_DIRECT

-----------------------------------------------------------------------------
(***************************************************************************)
(* The inductive invariant.                                                *)
(***************************************************************************)

(* Where run_job sets up the target at hand, and where it is past that.     *)
AtTarget  == {"remove", "create", "layout"}
SettingUp == AtTarget \cup {"setup"}
AllDone   == {"lookup", "start", "stuck", "running"}

(* How far the loops over the targets are.                                  *)
IndexInv ==
  /\ pc = "exited" => targets = <<>>
  /\ pc = "stat" => index = Len(targets) + 1 /\ Len(targets) <= Len(cmd.paths)
  /\ pc \in SettingUp => index \in 1 .. Len(targets) + 1
  /\ pc \in AtTarget => index \in DOMAIN targets /\ targets[index].create_file
  /\ pc \in SettingUp \cup AllDone => Len(targets) = Len(cmd.paths)

(* What parse_options has made sure of for each target.                     *)
TargetInv(t) ==
  /\ t.max_size <= t.size /\ t.base_offset < t.max_size
  /\ cmd.create_file => t.path \in Files /\ t.size = cmd.size
  /\ t.create_file => cmd.create_file
  /\ t.max_size = IF cmd.max_size = 0 THEN t.size ELSE cmd.max_size

(* A path named twice is set up twice or not at all.                        *)
SamePathInv ==
  \A i, j \in DOMAIN targets :
    targets[i].path = targets[j].path => targets[i].create_file = targets[j].create_file

(* The files this process has removed, or is about to write.                *)
Touched(f) ==
  \E j \in DOMAIN targets :
    /\ targets[j].create_file /\ targets[j].path = f
    /\ \/ pc \in SettingUp /\ j < index
       \/ pc \in {"create", "layout"} /\ j = index
       \/ pc \in AllDone

(* A file that is not to be set up is large enough, one that still has to   *)
(* be is not; and one that has been is again, unless it is the one at hand  *)
(* once more.                                                               *)
FilesInv ==
  \A i \in DOMAIN targets :
    LET t == targets[i] IN
      t.path \in Files =>
        /\ ~t.create_file => file[t.path] >= t.size
        /\ t.create_file /\ ~Touched(t.path) => file[t.path] < cmd.size
        /\ t.create_file /\ ~warned /\ (pc \in AllDone \/ (pc \in SettingUp /\ i < index)) =>
             file[t.path] >= t.max_size \/ (pc \in AtTarget /\ t.path = targets[index].path)

(* The layout of a file: it ends where the file position is once something  *)
(* was written, and does not go beyond what the target uses.                *)
LayoutInv ==
  LET t == targets[index] IN
    /\ pc = "create" => file[t.path] = Absent
    /\ pc = "layout" =>
         /\ file[t.path] \in Nat /\ file[t.path] <= pos
         /\ remaining <= ToLayOut(t) /\ pos + remaining <= t.max_size
         /\ remaining < ToLayOut(t) => file[t.path] = pos
         /\ ~warned => pos + remaining = t.max_size

IInv ==
  /\ TypeOK
  /\ IndexInv
  /\ \A i \in DOMAIN targets : TargetInv(targets[i])
  /\ SamePathInv
  /\ FilesInv
  /\ LayoutInv

(* Targets are typed one by one.                                            *)
LEMMA TargetTyped ==
  ASSUME TypeOK, NEW i \in DOMAIN targets
  PROVE  /\ targets[i] \in Target
         /\ targets[i].path \in Paths /\ targets[i].create_file \in BOOLEAN
         /\ targets[i].size \in Nat /\ targets[i].max_size \in Nat
         /\ targets[i].base_offset \in Nat
<1>1. targets[i] \in Target
  BY ElementOfSeq, LenProperties DEF TypeOK
<1> QED
  BY <1>1 DEF Target

(* The settings of a process.                                               *)
LEMMA CmdTyped ==
  ASSUME TypeOK, pc # "exited"
  PROVE  TypedSettings(cmd)
BY SettingsTyped DEF TypeOK, AllSettings

(* No targets, no threads.                                                  *)
LEMMA NoSequences ==
  /\ <<>> \in Seq(Target) /\ <<>> \in Seq(Nat \cup {Absent})
  /\ <<>> \in Seq([targets : Seq(Nat \ {0}), rel_thread_id : Nat])
OBVIOUS

(* Of a process that is gone only the files remain.                         *)
LEMMA ExitStep ==
  ASSUME TypeOK, Exit, file' \in [Files -> Nat \cup {Absent}]
  PROVE  IInv'
<1>1. /\ pc' = "exited" /\ targets' = <<>> /\ index' = 0 /\ pos' = 0 /\ remaining' = 0
      /\ warned' = FALSE /\ threads' = <<>> /\ total_overlap' = 0 /\ cpu' = <<>>
  BY DEF Exit
<1>2. DOMAIN targets' = {}
  BY <1>1
<1>3. TypeOK'
  <2>2. targets' \in Seq(Target) /\ cpu' \in Seq(Nat \cup {Absent})
        /\ threads' \in Seq([targets : Seq(Nat \ {0}), rel_thread_id : Nat])
    BY <1>1, NoSequences, Zenon
  <2>3. {index', pos', remaining', total_overlap'} \subseteq Nat
    BY DEF Exit
  <2>5. warned' \in BOOLEAN
    BY DEF Exit
  <2>4. pc' = "exited"
    BY <1>1
  <2> QED
    BY <2>2, <2>3, <2>4, <2>5 DEF TypeOK
<1>4. IndexInv' /\ SamePathInv' /\ FilesInv' /\ LayoutInv'
  BY <1>1, <1>2 DEF IndexInv, SamePathInv, FilesInv, LayoutInv, SettingUp, AtTarget, AllDone
<1> QED
  BY <1>2, <1>3, <1>4 DEF IInv

(* Initially, too.                                                          *)
LEMMA InitIInv == Init => IInv
<1> SUFFICES ASSUME Init PROVE IInv
  OBVIOUS
<1>1. /\ pc = "exited" /\ targets = <<>> /\ index = 0 /\ pos = 0 /\ remaining = 0
      /\ warned = FALSE /\ threads = <<>> /\ total_overlap = 0 /\ cpu = <<>>
  BY DEF Init
<1>2. DOMAIN targets = {}
  BY <1>1
<1>3. TypeOK
  <2>1. file \in [Files -> Nat \cup {Absent}]
    <3>1. 0 .. OffHalf - 1 \subseteq Nat
      OBVIOUS
    <3>2. FileSizes \subseteq Nat \cup {Absent}
      BY <3>1, StartupAssumption DEF StartupAssumption
    <3> QED
      BY <3>2 DEF Init
  <2>2. targets \in Seq(Target) /\ cpu \in Seq(Nat \cup {Absent})
        /\ threads \in Seq([targets : Seq(Nat \ {0}), rel_thread_id : Nat])
    BY <1>1, NoSequences, Zenon
  <2>3. {index, pos, remaining, total_overlap} \subseteq Nat
    BY DEF Init
  <2>5. warned \in BOOLEAN
    BY DEF Init
  <2>4. pc = "exited"
    BY <1>1
  <2> QED
    BY <2>1, <2>2, <2>3, <2>4, <2>5 DEF TypeOK
<1>4. IndexInv /\ SamePathInv /\ FilesInv /\ LayoutInv
  BY <1>1, <1>2 DEF IndexInv, SamePathInv, FilesInv, LayoutInv, SettingUp, AtTarget, AllDone
<1> QED
  BY <1>2, <1>3, <1>4 DEF IInv

(* A process begins.                                                        *)
LEMMA StartStep ==
  ASSUME IInv, NEW c \in Commands, Start(c)
  PROVE  IInv'
<1>1. /\ pc = "exited" /\ pc' = "stat" /\ cmd' = Settings(c) /\ index' = 1 /\ targets = <<>>
      /\ UNCHANGED <<file, targets, pos, remaining, warned, threads, total_overlap, cpu>>
      /\ TypeOK /\ Accepted(c)
  BY DEF Start, IInv, IndexInv
<1>2. DOMAIN targets' = {} /\ Len(targets') = 0
  BY <1>1
<1>3. TypeOK'
  BY <1>1 DEF TypeOK, AllSettings
<1>4. IndexInv'
  <2>1. Len(cmd'.paths) \in Nat
    BY <1>1, SettingsTyped, LenProperties DEF TypedSettings
  <2> QED
    BY <1>1, <1>2, <2>1 DEF IndexInv, SettingUp, AtTarget, AllDone
<1>5. SamePathInv' /\ FilesInv' /\ LayoutInv'
  BY <1>1, <1>2 DEF SamePathInv, FilesInv, LayoutInv
<1> QED
  BY <1>2, <1>3, <1>4, <1>5 DEF IInv


(* The Target made of a path that is used.                                  *)
LEMMA TargetMade ==
  ASSUME TypeOK, TypedSettings(cmd), NEW p \in Paths, GoodPath(cmd, p), GoodSize(TargetOf(cmd, p))
  PROVE  LET t == TargetOf(cmd, p)
         IN  /\ t \in Target /\ t.path = p
             /\ TargetInv(t)
             /\ p \in Files =>
                  /\ t.create_file <=> cmd.create_file /\ file[p] < cmd.size
                  /\ ~t.create_file => file[p] >= t.size
<1> DEFINE t == TargetOf(cmd, p)
<1>1. PICK sz \in Nat : sz = IF cmd.create_file THEN cmd.size
                             ELSE IF p \in Devices THEN DeviceSize ELSE file[p]
  BY Numbers DEF TypeOK, TypedSettings, GoodPath, Paths
<1>2. PICK mx \in Nat : mx = IF cmd.max_size = 0 THEN sz ELSE cmd.max_size
  BY DEF TypedSettings
<1>3. t = [path |-> p, create_file |-> cmd.create_file /\ NeedsCreate(p, cmd.size),
           size |-> sz, max_size |-> mx, base_offset |-> cmd.base_offset,
           thread_offset |-> cmd.thread_offset, block_size |-> cmd.block_size,
           stride |-> cmd.stride, direct |-> cmd.direct, sector_size |-> SectorSize]
  BY <1>1, <1>2 DEF TargetOf
<1> HIDE DEF t
<1>4. NeedsCreate(p, cmd.size) \in BOOLEAN
  BY DEF NeedsCreate
<1>5. t \in Target /\ t.path = p
  BY <1>3, <1>4, Numbers DEF Target, TypedSettings
<1>6. t.max_size = mx /\ t.size = sz /\ t.base_offset = cmd.base_offset
      /\ t.create_file = (cmd.create_file /\ NeedsCreate(p, cmd.size))
  BY <1>3
<1>7. mx <= sz /\ cmd.base_offset < mx
  <2>1. t.max_size <= t.size /\ ~(t.max_size <= t.base_offset)
    BY DEF GoodSize, BlockFits, t
  <2>2. cmd.base_offset \in Nat
    BY DEF TypedSettings
  <2> QED
    BY <1>6, <2>1, <2>2
<1>8. TargetInv(t)
  BY <1>1, <1>2, <1>5, <1>6, <1>7 DEF TargetInv, GoodPath
<1>9. ASSUME p \in Files
      PROVE  /\ t.create_file <=> cmd.create_file /\ file[p] < cmd.size
             /\ ~t.create_file => file[p] >= t.size
  <2>1. file[p] \in Int /\ (file[p] = Absent \/ file[p] \in Nat) /\ Absent = -1
        /\ cmd.size \in Nat /\ cmd.create_file \in BOOLEAN
    <3>1. file[p] \in Nat \cup {Absent}
      BY <1>9 DEF TypeOK
    <3>2. cmd.size \in Nat /\ cmd.create_file \in BOOLEAN
      BY DEF TypedSettings
    <3> QED
      BY <3>1, <3>2, Numbers
  <2>2. NeedsCreate(p, cmd.size) <=> file[p] < cmd.size
    BY <2>1 DEF NeedsCreate
  <2>3. ~cmd.create_file => sz = file[p]
    BY <1>1, <1>9, StartupAssumption DEF StartupAssumption
  <2>4. cmd.create_file => sz = cmd.size
    BY <1>1
  <2>5. t.create_file <=> cmd.create_file /\ file[p] < cmd.size
    BY <1>6, <2>2, Zenon
  <2>6. PICK x \in Int, y \in Nat : x = file[p] /\ y = cmd.size
    BY <2>1
  <2>7. PICK a \in BOOLEAN, b \in BOOLEAN : (a <=> t.create_file) /\ (b <=> cmd.create_file)
    OBVIOUS
  <2>8. ~t.create_file => sz <= x
    BY <2>3, <2>4, <2>5, <2>6, <2>7
  <2> QED
    BY <1>6, <2>5, <2>6, <2>8
<1> QED
  BY <1>5, <1>8, <1>9 DEF t

(* The next Target.                                                         *)
LEMMA StatStep ==
  ASSUME IInv, Stat
  PROVE  IInv'
<1>0. TypeOK /\ pc = "stat" /\ index \in Nat /\ index <= Len(cmd.paths) /\ index = Len(targets) + 1
  BY DEF IInv, IndexInv, Stat, TypeOK
<1>1. CASE Exit /\ UNCHANGED file
  BY <1>0, <1>1, ExitStep DEF TypeOK
<1>2. CASE ~(Exit /\ UNCHANGED file)
  <2>1. PICK p : p = cmd.paths[index]
    OBVIOUS
  <2>2. TypedSettings(cmd)
    BY <1>0, CmdTyped
  <2>3. p \in Paths
    <3>1. cmd.paths \in Seq(Paths) /\ Len(cmd.paths) \in Nat /\ Len(targets) \in Nat
      BY <1>0, <2>2, LenProperties DEF TypeOK, TypedSettings
    <3> QED
      BY <1>0, <2>1, <3>1, ElementOfSeq
  <2>4. PICK t : /\ t = TargetOf(cmd, p) /\ GoodPath(cmd, p) /\ GoodSize(TargetOf(cmd, p))
                 /\ targets' = Append(targets, t) /\ index' = index + 1
                 /\ UNCHANGED <<file, pc, cmd, pos, remaining, warned, threads, total_overlap, cpu>>
    BY <1>2, <2>1 DEF Stat
  <2>5. /\ t \in Target /\ t.path = p /\ TargetInv(t)
        /\ p \in Files => /\ t.create_file <=> cmd.create_file /\ file[p] < cmd.size
                          /\ ~t.create_file => file[p] >= t.size
    BY <1>0, <2>2, <2>3, <2>4, TargetMade
  <2>6. PICK n \in Nat : n = Len(targets)
    BY <1>0, LenProperties DEF TypeOK
  <2>7. /\ targets \in Seq(Target) /\ DOMAIN targets = 1 .. n
        /\ targets' \in Seq(Target) /\ DOMAIN targets' = 1 .. n + 1 /\ Len(targets') = n + 1
        /\ targets'[n + 1] = t
        /\ \A i \in 1 .. n : targets'[i] = targets[i]
    BY <1>0, <2>4, <2>5, <2>6, LenProperties, AppendProperties DEF TypeOK
  <2>8. \A i \in DOMAIN targets' : \/ i \in DOMAIN targets /\ targets'[i] = targets[i]
                                   \/ i = n + 1 /\ targets'[i] = t
    BY <2>7
  <2>9. TypeOK'
    BY <1>0, <2>4, <2>7 DEF TypeOK
  <2>10. IndexInv'
    BY <1>0, <2>4, <2>6, <2>7 DEF IInv, IndexInv, SettingUp, AtTarget, AllDone
  <2>11. \A i \in DOMAIN targets' : TargetInv(targets[i])'
    BY <2>4, <2>5, <2>8 DEF IInv, TargetInv
  <2>12. \A i \in DOMAIN targets :
           targets[i].path \in Files =>
             /\ ~targets[i].create_file => file[targets[i].path] >= targets[i].size
             /\ targets[i].create_file => file[targets[i].path] < cmd.size
    BY <1>0 DEF IInv, FilesInv, Touched, SettingUp, AtTarget, AllDone
  <2>13. FilesInv'
    BY <1>0, <2>4, <2>5, <2>8, <2>12 DEF FilesInv, Touched, SettingUp, AtTarget, AllDone
  <2>14. ASSUME NEW i \in DOMAIN targets, targets[i].path = p
         PROVE  targets[i].create_file = t.create_file
    <3>1. /\ TargetInv(targets[i]) /\ targets[i].size \in Nat
          /\ targets[i].create_file \in BOOLEAN /\ t.create_file \in BOOLEAN
      BY <1>0, <2>5, TargetTyped DEF IInv, Target
    <3>2. CASE cmd.create_file
      <4>1. p \in Files /\ targets[i].size = cmd.size /\ cmd.size \in Nat /\ file[p] \in Int
        BY <1>0, <2>2, <2>14, <3>1, <3>2, Numbers DEF TargetInv, TypedSettings, TypeOK
      <4> QED
        BY <2>5, <2>12, <2>14, <3>1, <3>2, <4>1
    <3>3. CASE ~cmd.create_file
      BY <2>5, <3>1, <3>3 DEF TargetInv
    <3> QED
      BY <3>2, <3>3
  <2>15. SamePathInv'
    BY <2>5, <2>8, <2>14 DEF IInv, SamePathInv
  <2>16. LayoutInv'
    BY <1>0, <2>4 DEF LayoutInv
  <2> QED
    BY <2>9, <2>10, <2>11, <2>13, <2>15, <2>16 DEF IInv
<1> QED
  BY <1>1, <1>2


(* Every file is typed, also the one that is made or written.               *)
LEMMA FileAt ==
  ASSUME IInv, pc \in AtTarget
  PROVE  /\ TypedSettings(cmd) /\ index \in DOMAIN targets
         /\ targets[index].create_file /\ cmd.create_file
         /\ targets[index].path \in Files /\ targets[index].size = cmd.size
         /\ targets[index].max_size \in Nat /\ targets[index].base_offset \in Nat
         /\ targets[index].base_offset < targets[index].max_size
         /\ targets[index].max_size <= cmd.size
<1>1. TypeOK /\ pc # "exited" /\ index \in DOMAIN targets /\ targets[index].create_file
  BY DEF IInv, IndexInv, AtTarget
<1>2. TargetInv(targets[index])
  BY <1>1 DEF IInv
<1>3. TypedSettings(cmd) /\ targets[index].max_size \in Nat /\ targets[index].base_offset \in Nat
  BY <1>1, CmdTyped, TargetTyped
<1> QED
  BY <1>1, <1>2, <1>3 DEF TargetInv

(* As long as the targets stay what they are, so does what is known of each.*)
LEMMA SameTargets ==
  ASSUME IInv, UNCHANGED <<targets, cmd>>
  PROVE  (\A i \in DOMAIN targets' : TargetInv(targets[i])') /\ SamePathInv'
BY DEF IInv, TargetInv, SamePathInv

(* All Targets are made.                                                    *)
LEMMA ParsedStep ==
  ASSUME IInv, Parsed
  PROVE  IInv'
<1>1. /\ pc = "stat" /\ index > Len(cmd.paths) /\ pc' = "setup" /\ index' = 1
      /\ UNCHANGED <<file, cmd, targets, pos, remaining, warned, threads, total_overlap, cpu>>
  BY DEF Parsed
<1>2. TypeOK' /\ TypeOK
  BY <1>1 DEF TypeOK, IInv
<1>3. PICK n \in Nat : n = Len(targets) /\ DOMAIN targets = 1 .. n
  BY <1>2, LenProperties DEF TypeOK
<1>4. Len(cmd.paths) = n
  <2>1. Len(cmd.paths) \in Nat /\ index \in Nat
    BY <1>1, <1>2, CmdTyped, LenProperties DEF TypedSettings, TypeOK
  <2> QED
    BY <1>1, <1>3, <2>1 DEF IInv, IndexInv
<1>5. IndexInv'
  BY <1>1, <1>3, <1>4 DEF IndexInv, SettingUp, AtTarget, AllDone
<1>6. FilesInv'
  BY <1>1, <1>3 DEF IInv, FilesInv, Touched, SettingUp, AtTarget, AllDone
<1>7. LayoutInv'
  BY <1>1 DEF LayoutInv
<1> QED
  BY <1>1, <1>2, <1>5, <1>6, <1>7, SameTargets DEF IInv

(* The checks.                                                              *)
LEMMA CheckStep ==
  ASSUME IInv, Check
  PROVE  IInv'
<1>0. TypeOK /\ pc = "setup" /\ UNCHANGED file /\ index <= Len(targets)
  BY DEF IInv, Check
<1>1. PICK n \in Nat : n = Len(targets) /\ DOMAIN targets = 1 .. n /\ index \in 1 .. n
  BY <1>0, LenProperties DEF TypeOK, IInv, IndexInv, SettingUp
<1>2. CASE Exit
  BY <1>0, <1>2, ExitStep DEF TypeOK
<1>3. CASE targets[index].create_file /\ pc' = "remove" /\ UNCHANGED process
  <2>1. UNCHANGED <<file, cmd, targets, index, pos, remaining, warned, threads, total_overlap, cpu>>
    BY <1>0, <1>3 DEF process
  <2>2. TypeOK'
    BY <1>0, <1>3, <2>1 DEF TypeOK
  <2>3. IndexInv'
    BY <1>0, <1>1, <1>3, <2>1 DEF IInv, IndexInv, SettingUp, AtTarget, AllDone
  <2>4. FilesInv'
    BY <1>0, <1>3, <2>1 DEF IInv, FilesInv, Touched, SettingUp, AtTarget, AllDone
  <2>5. LayoutInv'
    BY <1>3 DEF LayoutInv
  <2> QED
    BY <2>1, <2>2, <2>3, <2>4, <2>5, SameTargets DEF IInv
<1>4. CASE /\ ~targets[index].create_file /\ index' = index + 1
           /\ UNCHANGED <<pc, cmd, targets, pos, remaining, warned, threads, total_overlap, cpu>>
  <2>1. TypeOK'
    BY <1>0, <1>1, <1>4 DEF TypeOK
  <2>2. IndexInv'
    BY <1>0, <1>1, <1>4 DEF IInv, IndexInv, SettingUp, AtTarget, AllDone
  <2>3. \A i \in 1 .. n : i < index + 1 <=> i < index \/ i = index
    BY <1>1
  <2>4. FilesInv'
    BY <1>0, <1>1, <1>4, <2>3 DEF IInv, FilesInv, Touched, SettingUp, AtTarget, AllDone
  <2>5. LayoutInv'
    BY <1>0, <1>4 DEF LayoutInv
  <2> QED
    BY <1>4, <2>1, <2>2, <2>4, <2>5, SameTargets DEF IInv
<1> QED
  BY <1>2, <1>3, <1>4 DEF Check

(* While a target is set up, only its own file changes.                      *)
LEMMA OnlyItsFile ==
  ASSUME IInv, pc \in AtTarget, pc' \in {"create", "layout"},
         UNCHANGED <<cmd, targets, index>>, warned => warned',
         \A f \in Files : f # targets[index].path => file'[f] = file[f]
  PROVE  FilesInv'
<1>1. PICK p \in Files : p = targets[index].path
  BY FileAt DEF AtTarget
<1>2. index \in DOMAIN targets /\ targets[index].create_file
  BY FileAt DEF AtTarget
<1>3. ASSUME NEW i \in DOMAIN targets, targets[i].path \in Files
      PROVE  LET t == targets[i] IN
               /\ ~t.create_file => file'[t.path] >= t.size
               /\ t.create_file /\ ~Touched(t.path)' => file'[t.path] < cmd.size
               /\ t.create_file /\ ~warned /\ i < index =>
                    file'[t.path] >= t.max_size \/ t.path = p
  <2>1. CASE targets[i].path = p
    <3>1. targets[i].create_file
      BY <1>1, <1>2, <2>1 DEF IInv, SamePathInv
    <3>2. Touched(p)'
      BY <1>1, <1>2 DEF Touched
    <3> QED
      BY <2>1, <3>1, <3>2
  <2>2. CASE targets[i].path # p
    <3>1. Touched(targets[i].path) => Touched(targets[i].path)'
      BY DEF Touched, SettingUp, AtTarget, AllDone
    <3> QED
      BY <1>1, <1>3, <2>2, <3>1 DEF IInv, FilesInv, SettingUp, AtTarget, AllDone
  <2> QED
    BY <2>1, <2>2
<1> QED
  BY <1>1, <1>3 DEF FilesInv, SettingUp, AtTarget, AllDone

(* The old file is removed.                                                 *)
LEMMA RemoveOldStep ==
  ASSUME IInv, RemoveOld
  PROVE  IInv'
<1>0. TypeOK /\ pc = "remove" /\ pc \in AtTarget
  BY DEF IInv, RemoveOld, AtTarget
<1>1. CASE Exit /\ UNCHANGED file
  BY <1>0, <1>1, ExitStep DEF TypeOK
<1>2. CASE ~(Exit /\ UNCHANGED file)
  <2>1. PICK p \in Files : p = targets[index].path
    BY <1>0, FileAt
  <2>2. /\ file' = [file EXCEPT ![p] = Absent] /\ pc' = "create"
        /\ UNCHANGED <<cmd, targets, index, pos, remaining, warned, threads, total_overlap, cpu>>
    BY <1>2, <2>1 DEF RemoveOld, process
  <2>3. file' \in [Files -> Nat \cup {Absent}] /\ file'[p] = Absent
        /\ \A f \in Files \ {p} : file'[f] = file[f]
    BY <1>0, <2>2 DEF TypeOK
  <2>4. TypeOK'
    BY <1>0, <2>2, <2>3 DEF TypeOK
  <2>5. IndexInv'
    BY <1>0, <2>2 DEF IInv, IndexInv, SettingUp, AtTarget, AllDone
  <2>8. FilesInv'
    BY <1>0, <2>1, <2>2, <2>3, OnlyItsFile
  <2>9. LayoutInv'
    BY <2>1, <2>2, <2>3 DEF LayoutInv
  <2> QED
    BY <2>2, <2>4, <2>5, <2>8, <2>9, SameTargets DEF IInv
<1> QED
  BY <1>1, <1>2

(* The new file is empty, and its position is the base offset, or 0.        *)
LEMMA CreateStep ==
  ASSUME IInv, Create
  PROVE  IInv'
<1>0. TypeOK /\ pc = "create" /\ pc \in AtTarget
  BY DEF IInv, Create, AtTarget
<1>1. CASE Exit /\ UNCHANGED file
  BY <1>0, <1>1, ExitStep DEF TypeOK
<1>2. CASE ~(Exit /\ UNCHANGED file)
  <2>1. PICK t : t = targets[index] /\ t.path \in Files
    BY <1>0, FileAt
  <2> DEFINE p == t.path
  <2>2. /\ file' = [file EXCEPT ![p] = 0] /\ pc' = "layout" /\ remaining' = ToLayOut(t)
        /\ \/ pos' = t.base_offset /\ warned' = warned
           \/ pos' = 0 /\ warned' = TRUE
        /\ UNCHANGED <<cmd, targets, index, threads, total_overlap, cpu>>
    BY <1>2, <2>1 DEF Create
  <2>3. file' \in [Files -> Nat \cup {Absent}] /\ file'[p] = 0
        /\ \A f \in Files : f # p => file'[f] = file[f]
    BY <1>0, <2>1, <2>2 DEF TypeOK
  <2>4. PICK b \in Nat, m \in Nat : b = t.base_offset /\ m = t.max_size /\ b < m
    BY <1>0, <2>1, FileAt
  <2>5. ToLayOut(t) = m - b /\ m - b \in Nat \ {0}
    BY <2>4 DEF ToLayOut
  <2>6. TypeOK'
    <3>1. remaining' \in Nat /\ pos' \in Nat
      BY <2>2, <2>4, <2>5
    <3>2. warned' \in BOOLEAN
      BY <1>0, <2>2 DEF TypeOK
    <3> QED
      BY <1>0, <2>2, <2>3, <3>1, <3>2 DEF TypeOK
  <2>7. IndexInv'
    BY <1>0, <2>2 DEF IInv, IndexInv, SettingUp, AtTarget, AllDone
  <2>8. FilesInv'
    <3>1. warned => warned'
      BY <2>2
    <3> QED
      BY <1>0, <2>1, <2>2, <2>3, <3>1, OnlyItsFile
  <2>9. LayoutInv'
    <3>1. /\ targets'[index'] = t /\ ToLayOut(t)' = ToLayOut(t)
          /\ ToLayOut(targets[index])' = ToLayOut(t)
      BY <2>1, <2>2 DEF ToLayOut
    <3>2. /\ file'[t.path] \in Nat /\ file'[t.path] <= pos'
          /\ remaining' <= ToLayOut(t) /\ pos' + remaining' <= t.max_size
          /\ ~(remaining' < ToLayOut(t))
          /\ ~warned' => pos' + remaining' = t.max_size
      BY <2>1, <2>2, <2>3, <2>4, <2>5
    <3> QED
      BY <2>2, <3>1, <3>2 DEF LayoutInv
  <2> QED
    BY <2>2, <2>6, <2>7, <2>8, <2>9, SameTargets DEF IInv
<1> QED
  BY <1>1, <1>2

(* What is known of the target at hand while it is written.                 *)
LEMMA Writing ==
  ASSUME IInv, Write
  PROVE  \E p \in Files, at \in Nat, left \in Nat \ {0}, n \in Nat \ {0}, m \in Nat, b \in Nat,
            size \in Nat :
           /\ p = targets[index].path /\ at = pos /\ left = remaining
           /\ n = Chunk(remaining) /\ n <= left
           /\ m = targets[index].max_size /\ b = targets[index].base_offset
           /\ size = file[p] /\ size <= at /\ at + left <= m
           /\ ToLayOut(targets[index]) = m - b /\ b < m /\ left <= m - b
           /\ m <= cmd.size /\ cmd.create_file
           /\ ~warned => at + left = m
<1>1. TypeOK /\ pc = "layout" /\ pc \in AtTarget /\ remaining # 0
  BY DEF IInv, Write, AtTarget
<1>2. PICK t : t = targets[index]
  BY Zenon
<1>3. PICK p \in Files, m \in Nat, b \in Nat :
        /\ p = t.path /\ m = t.max_size /\ b = t.base_offset /\ b < m /\ m <= cmd.size
        /\ cmd.create_file
  BY <1>1, <1>2, FileAt
<1>4. ToLayOut(t) = m - b
  BY <1>3 DEF ToLayOut
<1>5. PICK at \in Nat, left \in Nat \ {0} : at = pos /\ left = remaining
  BY <1>1 DEF TypeOK
<1>6. PICK fill \in Nat \ {0} : fill = FillBuf
  BY Numbers
<1>7. PICK n \in Nat \ {0} : n = Chunk(remaining) /\ n <= left
  BY <1>5, <1>6 DEF Chunk
<1>8. PICK size \in Nat :
        /\ size = file[p] /\ size <= at /\ at + left <= m /\ left <= m - b
        /\ ~warned => at + left = m
  BY <1>1, <1>2, <1>3, <1>4, <1>5 DEF IInv, LayoutInv
<1>9. /\ p = targets[index].path /\ m = targets[index].max_size
      /\ b = targets[index].base_offset /\ ToLayOut(targets[index]) = m - b
  BY <1>2, <1>3, <1>4
<1> QED
  BY <1>3, <1>5, <1>7, <1>8, <1>9, Zenon

(* One write, complete or not.                                              *)
LEMMA WriteStep ==
  ASSUME IInv, Write
  PROVE  IInv'
<1>0. TypeOK /\ pc = "layout" /\ pc \in AtTarget
  BY DEF IInv, Write, AtTarget
<1>1. PICK p \in Files, at \in Nat, left \in Nat \ {0}, n \in Nat \ {0}, m \in Nat, b \in Nat,
           size \in Nat :
        /\ p = targets[index].path /\ at = pos /\ left = remaining
        /\ n = Chunk(remaining) /\ n <= left
        /\ m = targets[index].max_size /\ b = targets[index].base_offset
        /\ size = file[p] /\ size <= at /\ at + left <= m
        /\ ToLayOut(targets[index]) = m - b /\ b < m /\ left <= m - b
        /\ m <= cmd.size /\ cmd.create_file
        /\ ~warned => at + left = m
  BY Writing
<1>2. ASSUME NEW k \in Nat, file' = IF k = 0 THEN file ELSE [file EXCEPT ![p] = Max({@, at + k})]
      PROVE  /\ file' \in [Files -> Nat \cup {Absent}]
             /\ k # 0 => file'[p] = at + k
             /\ \A f \in Files : f # p => file'[f] = file[f]
  <2>1. CASE k = 0
    BY <1>0, <1>2, <2>1 DEF TypeOK
  <2>2. CASE k # 0
    <3>1. Max({size, at + k}) = at + k
      <4>1. PICK x \in Nat : x = at + k /\ size <= x
        BY <1>1, <1>2
      <4>2. Max({size, x}) \in {size, x} /\ Max({size, x}) >= x
        BY MaxOfTwo
      <4> QED
        BY <4>1, <4>2
    <3>2. file' = [file EXCEPT ![p] = at + k]
      BY <1>1, <1>2, <2>2, <3>1
    <3> QED
      BY <1>0, <3>2 DEF TypeOK
  <2> QED
    BY <2>1, <2>2
<1>3. ASSUME NEW k \in 0 .. n - 1, Exit,
             file' = IF k = 0 THEN file ELSE [file EXCEPT ![p] = Max({@, at + k})]
      PROVE  IInv'
  <2>1. k \in Nat
    OBVIOUS
  <2>2. file' \in [Files -> Nat \cup {Absent}]
    BY <1>2, <1>3, <2>1
  <2> QED
    BY <1>0, <1>3, <2>2, ExitStep
<1>4. CASE /\ file' = IF n = 0 THEN file ELSE [file EXCEPT ![p] = Max({@, at + n})]
           /\ pos' = at + n /\ remaining' = left - n
           /\ UNCHANGED <<pc, cmd, targets, index, warned, threads, total_overlap, cpu>>
  <2>1. /\ file' \in [Files -> Nat \cup {Absent}] /\ file'[p] = at + n
        /\ \A f \in Files : f # p => file'[f] = file[f]
    BY <1>2, <1>4
  <2>2. TypeOK'
    <3>1. pos' \in Nat /\ remaining' \in Nat
      BY <1>1, <1>4
    <3> QED
      BY <1>0, <1>4, <2>1, <3>1 DEF TypeOK
  <2>3. IndexInv'
    BY <1>0, <1>4 DEF IInv, IndexInv, SettingUp, AtTarget, AllDone
  <2>4. FilesInv'
    BY <1>0, <1>1, <1>4, <2>1, OnlyItsFile
  <2>5. LayoutInv'
    <3>1. ToLayOut(targets[index])' = m - b
      BY <1>1, <1>4 DEF ToLayOut
    <3>2. /\ file'[p] = at + n /\ pos' = at + n /\ pos' + remaining' = at + left
          /\ remaining' <= m - b
      BY <1>1, <1>4, <2>1
    <3> QED
      BY <1>0, <1>1, <1>4, <3>1, <3>2 DEF LayoutInv
  <2> QED
    BY <1>4, <2>2, <2>3, <2>4, <2>5, SameTargets DEF IInv
<1>5. \/ /\ file' = IF n = 0 THEN file ELSE [file EXCEPT ![p] = Max({@, at + n})]
         /\ pos' = at + n /\ remaining' = left - n
         /\ UNCHANGED <<pc, cmd, targets, index, warned, threads, total_overlap, cpu>>
      \/ \E k \in 0 .. n - 1 :
           /\ file' = IF k = 0 THEN file ELSE [file EXCEPT ![p] = Max({@, at + k})]
           /\ Exit
  <2> HIDE DEF Exit
  <2>1. p = targets[index].path /\ at = pos /\ left = remaining /\ n = Chunk(remaining)
    BY <1>1
  <2> QED
    BY <2>1 DEF Write
<1>6. CASE \E k \in 0 .. n - 1 :
             /\ file' = IF k = 0 THEN file ELSE [file EXCEPT ![p] = Max({@, at + k})]
             /\ Exit
  <2>1. PICK k \in 0 .. n - 1 :
          /\ file' = IF k = 0 THEN file ELSE [file EXCEPT ![p] = Max({@, at + k})]
          /\ Exit
    BY <1>6
  <2> QED
    BY <1>3, <2>1
<1> QED
  BY <1>4, <1>5, <1>6

(* The file is laid out.                                                    *)
LEMMA LaidOutStep ==
  ASSUME IInv, LaidOut
  PROVE  IInv'
<1>0. TypeOK /\ pc = "layout" /\ pc \in AtTarget /\ remaining = 0
  BY DEF IInv, LaidOut, AtTarget
<1>1. /\ pc' = "setup" /\ index' = index + 1 /\ pos' = 0
      /\ UNCHANGED <<file, cmd, targets, remaining, warned, threads, total_overlap, cpu>>
  BY DEF LaidOut
<1>2. PICK n \in Nat : n = Len(targets) /\ DOMAIN targets = 1 .. n /\ index \in 1 .. n
  BY <1>0, FileAt, LenProperties DEF TypeOK
<1>3. PICK p \in Files, m \in Nat, b \in Nat :
        /\ p = targets[index].path /\ m = targets[index].max_size
        /\ b = targets[index].base_offset /\ b < m
        /\ targets[index].size = cmd.size /\ cmd.create_file /\ targets[index].create_file
  BY <1>0, FileAt
<1>4. ~warned => file[p] = m
  BY <1>0, <1>3 DEF IInv, LayoutInv, ToLayOut, TypeOK
<1>5. TypeOK'
  BY <1>0, <1>1, <1>2 DEF TypeOK
<1>6. IndexInv'
  BY <1>0, <1>1, <1>2 DEF IInv, IndexInv, SettingUp, AtTarget, AllDone
<1>7. FilesInv'
  <2>1. \A i \in 1 .. n : i < index + 1 <=> i < index \/ i = index
    BY <1>2
  <2>2. ASSUME NEW i \in DOMAIN targets, targets[i].path = p PROVE targets[i].max_size = m
    BY <1>2, <1>3, <2>2 DEF IInv, TargetInv
  <2>3. ASSUME NEW i \in DOMAIN targets, targets[i].path \in Files
        PROVE  LET t == targets[i] IN
                 /\ ~t.create_file => file[t.path] >= t.size
                 /\ t.create_file /\ ~Touched(t.path)' => file[t.path] < cmd.size
                 /\ t.create_file /\ ~warned /\ i < index + 1 => file[t.path] >= t.max_size
    <3>1. Touched(targets[i].path) => Touched(targets[i].path)'
      BY <1>0, <1>1, <1>2, <2>1 DEF Touched, SettingUp, AtTarget, AllDone
    <3>2. /\ ~targets[i].create_file => file[targets[i].path] >= targets[i].size
          /\ targets[i].create_file /\ ~Touched(targets[i].path) =>
               file[targets[i].path] < cmd.size
          /\ targets[i].create_file /\ ~warned /\ i < index =>
               file[targets[i].path] >= targets[i].max_size \/ targets[i].path = p
      BY <1>0, <1>3, <2>3 DEF IInv, FilesInv, SettingUp, AtTarget, AllDone
    <3>3. ~warned /\ targets[i].path = p => file[targets[i].path] >= targets[i].max_size
      BY <1>3, <1>4, <2>2, <2>3
    <3> QED
      BY <1>2, <1>3, <2>1, <3>1, <3>2, <3>3
  <2> QED
    BY <1>1, <2>3 DEF FilesInv, SettingUp, AtTarget, AllDone
<1>8. LayoutInv'
  BY <1>1 DEF LayoutInv
<1> QED
  BY <1>1, <1>5, <1>6, <1>7, <1>8, SameTargets DEF IInv

(* Files and targets stay what they are once all of them are set up, and    *)
(* before that the invariant does not depend on anything else.              *)
LEMMA SetUpStays ==
  ASSUME IInv, TypeOK', pc \in AllDone, pc' \in AllDone,
         UNCHANGED <<file, cmd, targets, warned>>
  PROVE  IInv'
<1>1. IndexInv'
  BY DEF IInv, IndexInv, SettingUp, AtTarget, AllDone
<1>2. \A x : Touched(x) <=> Touched(x)'
  BY DEF Touched, SettingUp, AtTarget, AllDone
<1>3. FilesInv'
  BY <1>2 DEF IInv, FilesInv, SettingUp, AtTarget, AllDone
<1>4. LayoutInv'
  BY DEF LayoutInv, AllDone
<1> QED
  BY <1>1, <1>3, <1>4, SameTargets DEF IInv

(* The last target is behind.                                               *)
LEMMA AllSetUpStep ==
  ASSUME IInv, AllSetUp
  PROVE  IInv'
<1>1. /\ pc = "setup" /\ index > Len(targets) /\ pc' = "lookup" /\ index' = 1
      /\ UNCHANGED <<file, cmd, targets, pos, remaining, warned, threads, total_overlap, cpu>>
      /\ TypeOK
  BY DEF AllSetUp, IInv
<1>2. PICK n \in Nat : n = Len(targets) /\ DOMAIN targets = 1 .. n
  BY <1>1, LenProperties DEF TypeOK
<1>3. \A i \in DOMAIN targets : i < index
  BY <1>1, <1>2 DEF TypeOK
<1>4. TypeOK'
  BY <1>1 DEF TypeOK
<1>5. IndexInv'
  BY <1>1 DEF IInv, IndexInv, SettingUp, AtTarget, AllDone
<1>6. \A x : Touched(x) <=> Touched(x)'
  BY <1>1, <1>3 DEF Touched, SettingUp, AtTarget, AllDone
<1>7. FilesInv'
  BY <1>1, <1>3, <1>6 DEF IInv, FilesInv, SettingUp, AtTarget, AllDone
<1>8. LayoutInv'
  BY <1>1 DEF LayoutInv
<1> QED
  BY <1>1, <1>4, <1>5, <1>7, <1>8, SameTargets DEF IInv

(* A device is looked up.                                                   *)
LEMMA LookUpStep ==
  ASSUME IInv, LookUp
  PROVE  IInv'
<1>0. TypeOK /\ pc = "lookup" /\ UNCHANGED file
  BY DEF IInv, LookUp
<1>1. CASE Exit
  BY <1>0, <1>1, ExitStep DEF TypeOK
<1>2. CASE ~Exit
  <2>1. /\ index' = index + 1
        /\ UNCHANGED <<pc, cmd, targets, pos, remaining, warned, threads, total_overlap, cpu>>
    BY <1>2 DEF LookUp
  <2>2. TypeOK'
    BY <1>0, <2>1 DEF TypeOK
  <2> QED
    BY <1>0, <2>1, <2>2, SetUpStays DEF AllDone
<1> QED
  BY <1>1, <1>2

(* ThreadParams are typed.                                                  *)
LEMMA ThreadsTyped ==
  ASSUME NEW c, TypedSettings(c)
  PROVE  ThreadParams(c) \in Seq([targets : Seq(Nat \ {0}), rel_thread_id : Nat])
<1> DEFINE Params == [targets : Seq(Nat \ {0}), rel_thread_id : Nat]
<1>1. PICK l \in Nat, m \in Nat, n \in Nat :
        l = Len(c.paths) /\ m = c.total_threads /\ n = ThreadsPerTarget(c)
  BY LenProperties DEF TypedSettings, ThreadsPerTarget
<1>2. CASE c.use_total_threads
  <2>1. [j \in 1 .. l |-> j] \in Seq(Nat \ {0})
    BY IsASeq
  <2>2. ASSUME NEW i \in 1 .. m
        PROVE  [targets |-> [j \in 1 .. l |-> j], rel_thread_id |-> i - 1] \in Params
    BY <2>1, <2>2
  <2> HIDE DEF Params
  <2>3. [i \in 1 .. m |-> [targets |-> [j \in 1 .. l |-> j], rel_thread_id |-> i - 1]]
          \in Seq(Params)
    BY <2>2, IsASeq
  <2> QED
    BY <1>1, <1>2, <2>3 DEF ThreadParams, Params
<1>3. CASE ~c.use_total_threads
  <2>1. PICK k \in Nat : k = l * n
    OBVIOUS
  <2>2. ASSUME NEW i \in 1 .. k
        PROVE  [targets |-> <<(i - 1) \div n + 1>>, rel_thread_id |-> (i - 1) % n] \in Params
    <3>1. n \in Nat \ {0} /\ i - 1 \in Nat
      BY <2>1, <2>2
    <3>2. (i - 1) \div n \in Nat /\ (i - 1) % n \in Nat
      BY <3>1
    <3>3. PICK x \in Nat, y \in Nat : x = (i - 1) \div n /\ y = (i - 1) % n
      BY <3>2
    <3>4. <<x + 1>> \in Seq(Nat \ {0})
      OBVIOUS
    <3> QED
      BY <3>3, <3>4
  <2> HIDE DEF Params
  <2>3. [i \in 1 .. k |-> [targets |-> <<(i - 1) \div n + 1>>, rel_thread_id |-> (i - 1) % n]]
          \in Seq(Params)
    BY <2>2, IsASeq
  <2> QED
    BY <1>1, <1>3, <2>1, <2>3 DEF ThreadParams, Params
<1> QED
  BY <1>2, <1>3

(* Threads are handed out.                                                  *)
LEMMA AssignStep ==
  ASSUME IInv, Assign
  PROVE  IInv'
<1>0. TypeOK /\ pc = "lookup" /\ UNCHANGED file
  BY DEF IInv, Assign
<1>1. CASE Exit
  BY <1>0, <1>1, ExitStep DEF TypeOK
<1>2. CASE ~Exit
  <2>1. /\ pc' = "start" /\ threads' = ThreadParams(cmd) /\ index' = 1
        /\ total_overlap' = (Len(targets) * ThreadsPerTarget(cmd) * cmd.overlap) % UIntMod
        /\ UNCHANGED <<cmd, targets, pos, remaining, warned, cpu>>
    BY <1>2 DEF Assign
  <2>2. TypedSettings(cmd)
    BY <1>0, CmdTyped
  <2>3. threads' \in Seq([targets : Seq(Nat \ {0}), rel_thread_id : Nat])
    BY <2>1, <2>2, ThreadsTyped
  <2>4. total_overlap' \in Nat
    <3>1. PICK l \in Nat, n \in Nat, o \in Nat :
            l = Len(targets) /\ n = ThreadsPerTarget(cmd) /\ o = cmd.overlap
      BY <1>0, <2>2, LenProperties DEF TypeOK, TypedSettings, ThreadsPerTarget
    <3>2. PICK k \in Nat, u \in Nat \ {0} : k = l * n * o /\ u = UIntMod
      BY Numbers
    <3>3. k % u \in Nat
      BY <3>2
    <3>4. total_overlap' = k % u
      BY <2>1, <3>1, <3>2
    <3> QED
      BY <3>3, <3>4
  <2>5. TypeOK'
    BY <1>0, <2>1, <2>3, <2>4 DEF TypeOK
  <2> QED
    BY <1>0, <2>1, <2>5, SetUpStays DEF AllDone
<1> QED
  BY <1>1, <1>2

(* A thread starts.                                                         *)
LEMMA StartThreadStep ==
  ASSUME IInv, StartThread
  PROVE  IInv'
<1>0. TypeOK /\ pc = "start" /\ UNCHANGED file
  BY DEF IInv, StartThread
<1>1. CASE Exit
  BY <1>0, <1>1, ExitStep DEF TypeOK
<1>2. CASE ~Exit
  <2>1. PICK next :
          /\ cmd.disable_affinity \/ next \in Online
          /\ cpu' = Append(cpu, IF cmd.disable_affinity THEN Absent ELSE next)
          /\ pc' \in {"stuck", "start"} /\ index' = index + 1
          /\ UNCHANGED <<cmd, targets, pos, remaining, warned, threads, total_overlap>>
    BY <1>2 DEF StartThread
  <2>2. cpu' \in Seq(Nat \cup {Absent})
    <3>1. PICK x \in Nat \cup {Absent} : x = IF cmd.disable_affinity THEN Absent ELSE next
      BY <2>1, StartupAssumption DEF StartupAssumption
    <3>2. cpu \in Seq(Nat \cup {Absent}) /\ cpu' = Append(cpu, x)
      BY <1>0, <2>1, <3>1 DEF TypeOK
    <3> QED
      BY <3>2, AppendProperties
  <2>3. TypeOK'
    BY <1>0, <2>1, <2>2 DEF TypeOK
  <2> QED
    BY <1>0, <2>1, <2>3, SetUpStays DEF AllDone
<1> QED
  BY <1>1, <1>2

(* The threads run.                                                         *)
LEMMA RunStep ==
  ASSUME IInv, Run
  PROVE  IInv'
<1>1. /\ pc = "start" /\ pc' = "running" /\ TypeOK
      /\ UNCHANGED <<file, cmd, targets, index, pos, remaining, warned, threads,
                     total_overlap, cpu>>
  BY DEF Run, process, IInv
<1>2. TypeOK'
  BY <1>1 DEF TypeOK
<1> QED
  BY <1>1, <1>2, SetUpStays DEF AllDone

(* Nothing happens.                                                         *)
LEMMA StutterStep ==
  ASSUME IInv, UNCHANGED vars
  PROVE  IInv'
<1>1. UNCHANGED <<file, pc, cmd, targets, index, pos, remaining, warned, threads,
                  total_overlap, cpu>>
  BY DEF vars, process
<1>2. TypeOK' /\ IndexInv' /\ FilesInv' /\ LayoutInv'
  BY <1>1 DEF IInv, TypeOK, IndexInv, FilesInv, LayoutInv, Touched, ToLayOut
<1> QED
  BY <1>1, <1>2, SameTargets DEF IInv

(* So it holds in every state.                                              *)
LEMMA Invariance == SafetySpec => []IInv
<1>1. IInv /\ [Next]_vars => IInv'
  <2> SUFFICES ASSUME IInv, [Next]_vars PROVE IInv'
    OBVIOUS
  <2>1. ASSUME NEW c \in Commands, Start(c) PROVE IInv'
    BY <2>1, StartStep
  <2>2. ASSUME Step PROVE IInv'
    BY <2>2, StatStep, ParsedStep, CheckStep, RemoveOldStep, CreateStep, WriteStep, LaidOutStep,
       AllSetUpStep, LookUpStep, AssignStep, StartThreadStep, RunStep DEF Step
  <2>3. ASSUME Exit, UNCHANGED file PROVE IInv'
    BY <2>3, ExitStep DEF IInv, TypeOK
  <2> QED
    BY <2>1, <2>2, <2>3, StutterStep DEF Next, Finish, Kill
<1> QED
  BY <1>1, InitIInv, PTL DEF SafetySpec

-----------------------------------------------------------------------------
(***************************************************************************)
(* What follows from it.                                                   *)
(***************************************************************************)

(* Whatever the command lines, whatever fails and whenever processes are    *)
(* killed, every variable has its type: what is left to lay out of a file   *)
(* never is a negative number, with which the loop of job.cc would go on.   *)
THEOREM TypeCorrect == SafetySpec => []TypeOK
<1>1. IInv => TypeOK
  BY DEF IInv
<1> QED
  BY <1>1, Invariance, PTL

(* When threads run, every target file is as long as the part of it they    *)
(* use, unless the process said that lseek failed: for any files, any       *)
(* command lines and any history of processes that failed or were killed.   *)
THEOREM FilesLargeEnough == SafetySpec => []FilesHoldTargets
<1>1. ASSUME IInv, pc = "running", ~warned, NEW i \in DOMAIN targets, targets[i].path \in Files
      PROVE  file[targets[i].path] >= targets[i].max_size
  <2>1. TypeOK /\ TargetInv(targets[i])
    BY <1>1 DEF IInv
  <2>2. /\ targets[i].create_file => file[targets[i].path] >= targets[i].max_size
        /\ ~targets[i].create_file => file[targets[i].path] >= targets[i].size
    BY <1>1 DEF IInv, FilesInv, AllDone, AtTarget
  <2>3. targets[i].size \in Nat /\ targets[i].max_size \in Nat
        /\ targets[i].max_size <= targets[i].size
    BY <1>1, <2>1, TargetTyped DEF TargetInv
  <2>4. file[targets[i].path] \in Int
    BY <1>1, <2>1, Numbers DEF TypeOK
  <2>5. PICK a \in Nat, b \in Nat, x \in Int :
          a = targets[i].size /\ b = targets[i].max_size /\ x = file[targets[i].path] /\ b <= a
    BY <2>3, <2>4
  <2>6. targets[i].create_file \/ ~targets[i].create_file
    OBVIOUS
  <2> QED
    BY <2>2, <2>5, <2>6
<1>2. IInv => FilesHoldTargets
  BY <1>1 DEF FilesHoldTargets
<1> QED
  BY <1>2, Invariance, PTL

(* Files are removed and written only with -c, and only those that are      *)
(* shorter than that or that the same process has made before.              *)
THEOREM ReplacesOnlyShortFiles == SafetySpec => OnlyShortFilesReplaced
<1> DEFINE Replaceable(f) ==
             /\ cmd.create_file
             /\ \/ file[f] < cmd.size
                \/ \E j \in DOMAIN targets :
                     j < index /\ targets[j].path = f /\ targets[j].create_file
<1>1. ASSUME IInv, [Next]_vars, NEW f \in Files, file'[f] # file[f]
      PROVE  Replaceable(f)
  <2>1. RemoveOld \/ Create \/ Write
    BY <1>1 DEF Next, Step, Start, Stat, Parsed, Check, RemoveOld, Create, Write, LaidOut, AllSetUp,
                LookUp, Assign, StartThread, Run, Finish, Kill, vars
  <2>2. TypeOK /\ pc \in AtTarget
    BY <1>1, <2>1 DEF IInv, RemoveOld, Create, Write, AtTarget
  <2>3. PICK p \in Files : p = targets[index].path /\ cmd.create_file /\ index \in DOMAIN targets
                           /\ targets[index].create_file /\ cmd.size \in Nat
    BY <1>1, <2>2, FileAt DEF TypedSettings
  <2>4. f = p
    BY <1>1, <2>1, <2>2, <2>3 DEF RemoveOld, Create, Write, TypeOK
  <2>5. CASE RemoveOld
    <3>1. pc = "remove"
      BY <2>5 DEF RemoveOld
    <3>2. ~Touched(p) => file[p] < cmd.size
      BY <1>1, <2>3 DEF IInv, FilesInv
    <3>3. Touched(p) => \E j \in DOMAIN targets :
                          j < index /\ targets[j].path = p /\ targets[j].create_file
      BY <3>1 DEF Touched, AllDone
    <3> QED
      BY <2>3, <2>4, <3>2, <3>3
  <2>6. CASE Create
    <3>1. file[p] = Absent
      BY <1>1, <2>3, <2>6 DEF IInv, LayoutInv, Create
    <3> QED
      BY <2>3, <2>4, <3>1, Numbers
  <2>7. CASE Write
    <3>1. PICK q \in Files, at \in Nat, left \in Nat \ {0}, n \in Nat \ {0}, m \in Nat, b \in Nat,
               size \in Nat :
            /\ q = targets[index].path /\ at = pos /\ left = remaining
            /\ n = Chunk(remaining) /\ n <= left
            /\ m = targets[index].max_size /\ b = targets[index].base_offset
            /\ size = file[q] /\ size <= at /\ at + left <= m
            /\ ToLayOut(targets[index]) = m - b /\ b < m /\ left <= m - b
            /\ m <= cmd.size /\ cmd.create_file
            /\ ~warned => at + left = m
      BY <1>1, <2>7, Writing
    <3>2. PICK s \in Nat : s = cmd.size
      BY <2>3
    <3>3. size < s
      BY <3>1, <3>2
    <3> QED
      BY <2>3, <2>4, <3>1, <3>2, <3>3
  <2> QED
    BY <2>1, <2>5, <2>6, <2>7
<1>2. IInv /\ [Next]_vars => [\A f \in Files : file'[f] # file[f] => Replaceable(f)]_vars
  BY <1>1
<1> QED
  BY <1>2, Invariance, PTL DEF SafetySpec, OnlyShortFilesReplaced

-----------------------------------------------------------------------------
(***************************************************************************)
(* Where the threads of a target start.                                    *)
(***************************************************************************)

(* Division with remainder.                                                 *)
LEMMA DivMod ==
  ASSUME NEW n \in Nat \ {0}, NEW a \in Nat
  PROVE  a \div n \in Nat /\ a % n \in 0 .. n - 1 /\ a = n * (a \div n) + (a % n)
OBVIOUS

(* A number that off_t can hold is not changed by the conversion to it.     *)
LEMMA OffFits ==
  ASSUME NEW x \in Int, 0 <= x, x < OffHalf
  PROVE  Off(x) = x
<1>1. PICK h \in Nat \ {0} : h = OffHalf
  BY Numbers
<1>2. (x + h) % (2 * h) = x + h
  BY <1>1
<1> QED
  BY <1>1, <1>2 DEF Off, Signed

(* The checks leave room for the first block of each of the n threads, if   *)
(* the distance of the last one can be computed.                            *)
LEMMA RoomForFirst ==
  ASSUME NEW t \in Target, NEW n \in Nat, NEW r \in 0 .. n - 1,
         t.base_offset < t.max_size, BlockFits(t), ThreadsFit(t, n),
         n <= UIntMod, t.max_size < OffHalf, PlacesFit(t, n)
  PROVE  PlaceInside(t, r)
<1>1. PICK max \in Nat, base \in Nat, block \in Nat, off \in Nat :
        max = t.max_size /\ base = t.base_offset /\ block = t.block_size /\ off = t.thread_offset
  BY DEF Target
<1>2. PICK h \in Nat \ {0}, u \in Nat \ {0} : h = OffHalf /\ u = UIntMod
  BY Numbers
<1>3. block <= max - base
  <2>1. PICK d \in Nat, w \in Nat \ {0} : d = max - base /\ w = 2 * h /\ d < w
    BY <1>1, <1>2
  <2>2. d % w = d
    BY <2>1
  <2>3. Unsigned(t.max_size - t.base_offset) = d
    BY <1>1, <1>2, <2>1, <2>2, Zenon DEF Unsigned
  <2>4. ~(d < block)
    BY <1>1, <2>3, Zenon DEF BlockFits
  <2> QED
    BY <2>1, <2>4
<1>4. Off(max - base - block) = max - base - block
  <2>1. max - base - block \in Int /\ 0 <= max - base - block /\ max - base - block < OffHalf
    BY <1>1, <1>2, <1>3
  <2> QED
    BY <2>1, OffFits
<1>5. (n - 1) % UIntMod = n - 1
  BY <1>2
<1>6. Off(off * (n - 1)) = off * (n - 1)
  <2>1. off * (n - 1) \in Int /\ 0 <= off * (n - 1) /\ off * (n - 1) < OffHalf
    BY <1>1 DEF PlacesFit
  <2> QED
    BY <2>1, OffFits
<1>7. off * (n - 1) <= max - base - block
  <2>1. ~(max - base - block < off * (n - 1))
    BY <1>1, <1>4, <1>5, <1>6, Zenon DEF ThreadsFit
  <2>2. off * (n - 1) \in Int
    OBVIOUS
  <2> QED
    BY <2>1, <2>2
<1>8. r * off <= off * (n - 1)
  OBVIOUS
<1>9. PICK d \in Nat : d = r * off /\ base + d + block <= max
  BY <1>7, <1>8
<1>10. Off(base + Off(d)) = base + d
  <2>1. max < h
    BY <1>1, <1>2
  <2>2. /\ d \in Int /\ 0 <= d /\ d < OffHalf
        /\ base + d \in Int /\ 0 <= base + d /\ base + d < OffHalf
    BY <1>2, <1>9, <2>1
  <2> QED
    BY <2>2, OffFits
<1>11. ThreadPlace(t, r) = base + d
  BY <1>1, <1>9, <1>10, Zenon DEF ThreadPlace
<1> QED
  BY <1>1, <1>9, <1>11 DEF PlaceInside

(* A number an off_t is too small for, but not by more than its range.      *)
LEMMA OffWraps ==
  ASSUME NEW x \in Int, OffHalf <= x, x < 2 * OffHalf
  PROVE  Off(x) = x - 2 * OffHalf
<1>1. PICK h \in Nat \ {0} : h = OffHalf
  BY Numbers
<1>2. x + h = (x - h) + 2 * h /\ x - h \in 0 .. 2 * h - 1
  BY <1>1
<1>3. (x + h) % (2 * h) = x - h
  BY <1>1, <1>2
<1> QED
  BY <1>1, <1>3 DEF Off, Signed

(* If it cannot, the first thread whose distance does not fit begins before *)
(* the base offset.                                                         *)
LEMMA OneOutside ==
  ASSUME NEW t \in Target, NEW n \in Nat, t.base_offset < t.max_size, t.max_size < OffHalf,
         t.thread_offset < OffHalf, ~PlacesFit(t, n)
  PROVE  n # 0 /\ \E k \in 0 .. n - 1 : ~PlaceInside(t, k)
<1>1. PICK max \in Nat, base \in Nat, off \in Nat :
        max = t.max_size /\ base = t.base_offset /\ off = t.thread_offset
  BY DEF Target
<1>2. PICK h \in Nat \ {0} : h = OffHalf
  BY Numbers
<1>3. ~(off * (n - 1) < h) /\ max < h /\ off < h /\ base < max
  BY <1>1, <1>2 DEF PlacesFit
<1>4. n # 0 /\ off # 0
  BY <1>2, <1>3
<1>5. PICK k \in 0 .. n - 1 : h <= k * off /\ k * off < h + off
  <2>1. PICK q \in Nat, m \in 0 .. off - 1 : h - 1 = off * q + m
    <3>1. h - 1 \in Nat /\ off \in Nat \ {0}
      BY <1>2, <1>4
    <3>2. /\ h - 1 = off * ((h - 1) \div off) + ((h - 1) % off)
          /\ (h - 1) \div off \in Nat /\ (h - 1) % off \in 0 .. off - 1
      BY <3>1, DivMod
    <3> QED
      BY <3>2, Zenon
  <2>2. (q + 1) * off = off * q + off
    OBVIOUS
  <2>3. h <= (q + 1) * off /\ (q + 1) * off < h + off
    BY <1>2, <2>1, <2>2
  <2>4. off * q < off * (n - 1)
    BY <1>3, <1>4, <2>1
  <2>5. q < n - 1
    BY <1>4, <2>4
  <2>6. q + 1 \in 0 .. n - 1
    BY <1>4, <2>5
  <2> QED
    BY <2>3, <2>6
<1>6. PICK d \in Nat : d = k * off /\ h <= d /\ d < h + off
  BY <1>5
<1>7. Off(d) = d - 2 * h
  BY <1>2, <1>3, <1>6, OffWraps
<1>8. base + (d - 2 * h) < base /\ base + (d - 2 * h) \in -h .. h - 1
  BY <1>2, <1>3, <1>6
<1>9. Off(base + (d - 2 * h)) < base
  <2>1. PICK y \in -h .. h - 1 : y = base + (d - 2 * h) /\ y < base
    BY <1>8
  <2>2. (y + h) % (2 * h) = y + h
    BY <2>1
  <2>3. Off(y) = y
    BY <1>2, <2>1, <2>2 DEF Off, Signed
  <2> QED
    BY <2>1, <2>3
<1>10. ThreadPlace(t, k) < base
  BY <1>1, <1>6, <1>7, <1>9, Zenon DEF ThreadPlace
<1>11. ~(t.base_offset <= ThreadPlace(t, k))
  <2>1. ThreadPlace(t, k) \in Int
    BY <1>1, <1>2, <1>6 DEF ThreadPlace, Off, Signed
  <2> QED
    BY <1>1, <1>10, <2>1
<1> QED
  BY <1>4, <1>11 DEF PlaceInside

(* What ThreadParams hands out: the threads of a target are told apart by   *)
(* rel_thread_id, which takes all numbers below theirs, and there are as    *)
(* many pairs of a thread and a target of its as the product says.          *)
LEMMA HandedOut ==
  ASSUME NEW c, TypedSettings(c)
  PROVE  LET T == ThreadParams(c)
             Of(j) == {i \in DOMAIN T : j \in Range(T[i].targets)}
             pairs == UNION {{i} \X DOMAIN T[i].targets : i \in DOMAIN T}
         IN  /\ \A j \in 1 .. Len(c.paths) :
                  /\ \A r \in 0 .. ThreadsPerTarget(c) - 1 :
                       \E i \in Of(j) : T[i].rel_thread_id = r
                  /\ \A h, i \in Of(j) : T[h].rel_thread_id = T[i].rel_thread_id => h = i
                  /\ \A i \in Of(j) : T[i].rel_thread_id \in 0 .. ThreadsPerTarget(c) - 1
             /\ Cardinality(pairs) = Len(c.paths) * ThreadsPerTarget(c)
<1> DEFINE T == ThreadParams(c)
           Of(j) == {i \in DOMAIN T : j \in Range(T[i].targets)}
           pairs == UNION {{i} \X DOMAIN T[i].targets : i \in DOMAIN T}
<1>1. PICK l \in Nat, n \in Nat : l = Len(c.paths) /\ n = ThreadsPerTarget(c)
  BY LenProperties DEF TypedSettings, ThreadsPerTarget
<1>2. CASE c.use_total_threads
  <2>1. T = [i \in 1 .. n |-> [targets |-> [j \in 1 .. l |-> j], rel_thread_id |-> i - 1]]
    BY <1>1, <1>2 DEF ThreadParams, ThreadsPerTarget
  <2> HIDE DEF T
  <2>2. /\ DOMAIN T = 1 .. n
        /\ \A i \in 1 .. n : /\ T[i].targets = [j \in 1 .. l |-> j]
                             /\ T[i].rel_thread_id = i - 1
    BY <2>1
  <2>3. \A i \in 1 .. n : DOMAIN T[i].targets = 1 .. l /\ Range(T[i].targets) = 1 .. l
    <3>1. \A S : DOMAIN [j \in S |-> j] = S /\ Range([j \in S |-> j]) = S
      BY DEF Range
    <3> QED
      BY <2>2, <3>1
  <2>4. \A j \in 1 .. l : Of(j) = 1 .. n
    BY <2>2, <2>3
  <2>5. pairs = (1 .. n) \X (1 .. l)
    <3>1. pairs = UNION {{i} \X (1 .. l) : i \in 1 .. n}
      BY <2>2, <2>3
    <3> QED
      BY <3>1
  <2>6. Cardinality(pairs) = l * n
    <3>1. Cardinality((1 .. n) \X (1 .. l)) = Cardinality(1 .. n) * Cardinality(1 .. l)
      BY IntervalCount, FS_Product
    <3>2. Cardinality(1 .. n) = n /\ Cardinality(1 .. l) = l
      BY IntervalCount
    <3>3. Cardinality(pairs) = n * l
      BY <2>5, <3>1, <3>2, Zenon
    <3> QED
      BY <3>3
  <2>7. ASSUME NEW j \in 1 .. l
        PROVE  /\ \A r \in 0 .. n - 1 : \E i \in Of(j) : T[i].rel_thread_id = r
               /\ \A h, i \in Of(j) : T[h].rel_thread_id = T[i].rel_thread_id => h = i
               /\ \A i \in Of(j) : T[i].rel_thread_id \in 0 .. n - 1
    <3>1. Of(j) = 1 .. n
      BY <2>4
    <3> HIDE DEF Of
    <3>2. \A r \in 0 .. n - 1 : r + 1 \in 1 .. n /\ (r + 1) - 1 = r
      OBVIOUS
    <3>3. ASSUME NEW i \in 1 .. n PROVE T[i].rel_thread_id = i - 1
      BY <2>2, Zenon
    <3>4. ASSUME NEW h \in 1 .. n, NEW i \in 1 .. n, T[h].rel_thread_id = T[i].rel_thread_id
          PROVE  h = i
      <4>1. h - 1 = i - 1
        BY <3>3, <3>4, Zenon
      <4> QED
        BY <4>1
    <3>5. ASSUME NEW i \in 1 .. n PROVE T[i].rel_thread_id \in 0 .. n - 1
      <4>1. i - 1 \in 0 .. n - 1
        OBVIOUS
      <4> QED
        BY <3>3, <4>1, Zenon
    <3>6. \A r \in 0 .. n - 1 : \E i \in Of(j) : T[i].rel_thread_id = r
      BY <3>1, <3>2, <3>3, Zenon
    <3> QED
      BY <3>1, <3>4, <3>5, <3>6, Zenon
  <2> HIDE DEF Of, pairs
  <2> QED
    BY <1>1, <2>6, <2>7 DEF T, Of, pairs
<1>3. CASE ~c.use_total_threads
  <2>1. PICK k \in Nat : k = l * n
    OBVIOUS
  <2>2. T = [i \in 1 .. k |->
               [targets |-> <<(i - 1) \div n + 1>>, rel_thread_id |-> (i - 1) % n]]
    BY <1>1, <1>3, <2>1 DEF ThreadParams
  <2> HIDE DEF T
  <2>3. /\ DOMAIN T = 1 .. k
        /\ \A i \in 1 .. k : /\ T[i].targets = <<(i - 1) \div n + 1>>
                             /\ T[i].rel_thread_id = (i - 1) % n
    BY <2>2
  <2>4. \A i \in 1 .. k : /\ DOMAIN T[i].targets = 1 .. 1
                          /\ Range(T[i].targets) = {(i - 1) \div n + 1}
    <3>1. \A x : DOMAIN <<x>> = 1 .. 1 /\ Range(<<x>>) = {x}
      BY DEF Range
    <3> QED
      BY <2>3, <3>1
  <2>5. Cardinality(pairs) = l * n
    <3>1. pairs = UNION {{i} \X (1 .. 1) : i \in 1 .. k}
      BY <2>3, <2>4
    <3>2. pairs = (1 .. k) \X (1 .. 1)
      BY <3>1
    <3>3. Cardinality((1 .. k) \X (1 .. 1)) = Cardinality(1 .. k) * Cardinality(1 .. 1)
      BY IntervalCount, FS_Product
    <3>4. Cardinality(1 .. k) = k /\ Cardinality(1 .. 1) = 1
      BY IntervalCount
    <3>5. Cardinality(pairs) = k * 1
      BY <3>2, <3>3, <3>4, Zenon
    <3> QED
      BY <2>1, <3>5
  <2>6. ASSUME NEW j \in 1 .. l
        PROVE  /\ \A r \in 0 .. n - 1 : \E i \in Of(j) : T[i].rel_thread_id = r
               /\ \A h, i \in Of(j) : T[h].rel_thread_id = T[i].rel_thread_id => h = i
               /\ \A i \in Of(j) : T[i].rel_thread_id \in 0 .. n - 1
    <3>1. \A i : i \in Of(j) <=> i \in 1 .. k /\ j = (i - 1) \div n + 1
      BY <2>3, <2>4
    <3> HIDE DEF Of
    <3>2. CASE n = 0
      <4>1. k = 0
        BY <2>1, <3>2
      <4>2. Of(j) = {}
        BY <3>1, <4>1
      <4> QED
        BY <3>2, <4>2
    <3>3. CASE n # 0
      <4>3. ASSUME NEW r \in 0 .. n - 1 PROVE \E i \in Of(j) : T[i].rel_thread_id = r
        <5>1. PICK i \in Nat : i = n * (j - 1) + r + 1
          BY <3>3
        <5>2. i \in 1 .. k /\ i - 1 = n * (j - 1) + r
          <6>1. n * (j - 1) + n <= l * n
            OBVIOUS
          <6> QED
            BY <2>1, <5>1, <6>1
        <5>3. (i - 1) \div n = j - 1 /\ (i - 1) % n = r
          <6>1. j - 1 \in Nat /\ n \in Nat \ {0}
            BY <3>3
          <6> QED
            BY <5>2, <6>1
        <5>4. i \in Of(j) /\ T[i].rel_thread_id = r
          <6>1. j = ((i - 1) \div n) + 1
            BY <5>3
          <6>2. i \in Of(j)
            BY <3>1, <5>2, <6>1
          <6>3. T[i].rel_thread_id = (i - 1) % n
            BY <2>3, <5>2, Zenon
          <6> QED
            BY <5>3, <6>2, <6>3
        <5> QED
          BY <5>4, Zenon
      <4>4. ASSUME NEW h \in Of(j), NEW i \in Of(j), T[h].rel_thread_id = T[i].rel_thread_id
            PROVE  h = i
        <5>1. h \in 1 .. k /\ i \in 1 .. k /\ j = (h - 1) \div n + 1 /\ j = (i - 1) \div n + 1
          BY <3>1
        <5>2. (h - 1) % n = (i - 1) % n
          BY <2>3, <4>4, <5>1
        <5>3. /\ h - 1 = n * ((h - 1) \div n) + ((h - 1) % n) /\ (h - 1) \div n \in Nat
              /\ i - 1 = n * ((i - 1) \div n) + ((i - 1) % n) /\ (i - 1) \div n \in Nat
          BY <3>3, <5>1, DivMod
        <5>4. (h - 1) \div n = (i - 1) \div n
          BY <5>1, <5>3
        <5>5. h - 1 = i - 1
          BY <5>2, <5>3, <5>4, Zenon
        <5> QED
          BY <5>1, <5>5
      <4>5. ASSUME NEW i \in Of(j) PROVE T[i].rel_thread_id \in 0 .. n - 1
        <5>1. i \in 1 .. k /\ i - 1 \in Nat
          BY <3>1
        <5>2. (i - 1) % n \in 0 .. n - 1
          BY <3>3, <5>1, DivMod
        <5> QED
          BY <2>3, <5>1, <5>2, Zenon
      <4> QED
        BY <4>3, <4>4, <4>5, Zenon
    <3> QED
      BY <3>2, <3>3
  <2> HIDE DEF Of, pairs
  <2> QED
    BY <1>1, <2>5, <2>6 DEF T, Of, pairs
<1> QED
  BY <1>2, <1>3

(* Files, what is used of them, and the distance of two threads are no      *)
(* larger than an off_t can tell.                                           *)
SizesInv ==
  /\ \A f \in Files : file[f] < OffHalf
  /\ \A i \in DOMAIN targets : /\ targets[i].max_size < OffHalf
                                /\ targets[i].thread_offset < OffHalf

(* They do not become so.                                                   *)
LEMMA SizesStep ==
  ASSUME IInv, SizesInv, [Next]_vars
  PROVE  SizesInv'
<1>0. TypeOK
  BY DEF IInv
<1>1. \A f \in Files : file'[f] < OffHalf
  <2>1. CASE UNCHANGED file
    BY <2>1 DEF SizesInv
  <2>2. CASE ~UNCHANGED file
    <3>1. RemoveOld \/ Create \/ Write
      BY <2>2 DEF Next, Step, Start, Stat, Parsed, Check, RemoveOld, Create, Write, LaidOut,
                  AllSetUp, LookUp, Assign, StartThread, Run, Finish, Kill, vars
    <3>2. CASE RemoveOld \/ Create
      <4>1. PICK s \in {Absent, 0} : file' = [file EXCEPT ![targets[index].path] = s]
        BY <2>2, <3>2 DEF RemoveOld, Create
      <4>2. s < OffHalf
        BY <4>1, Numbers
      <4>3. \A f \in Files : file'[f] = s \/ file'[f] = file[f]
        BY <1>0, <4>1 DEF TypeOK
      <4> QED
        BY <4>2, <4>3 DEF SizesInv
    <3>3. CASE Write
      <4>1. PICK p \in Files, at \in Nat, left \in Nat \ {0}, n \in Nat \ {0}, m \in Nat, b \in Nat,
                 size \in Nat :
              /\ p = targets[index].path /\ at = pos /\ left = remaining
              /\ n = Chunk(remaining) /\ n <= left
              /\ m = targets[index].max_size /\ b = targets[index].base_offset
              /\ size = file[p] /\ size <= at /\ at + left <= m
              /\ ToLayOut(targets[index]) = m - b /\ b < m /\ left <= m - b
              /\ m <= cmd.size /\ cmd.create_file
              /\ ~warned => at + left = m
        BY <3>3, Writing
      <4>2. PICK k \in 0 .. n : file' = IF k = 0 THEN file
                                        ELSE [file EXCEPT ![p] = Max({@, at + k})]
        <5>1. \E k \in 0 .. Chunk(remaining) :
                file' = IF k = 0 THEN file
                        ELSE [file EXCEPT ![targets[index].path] = Max({@, pos + k})]
          <6>1. Chunk(remaining) \in 0 .. Chunk(remaining)
            BY <4>1
          <6>2. 0 .. Chunk(remaining) - 1 \subseteq 0 .. Chunk(remaining)
            BY <4>1
          <6> HIDE DEF Exit, Chunk
          <6> QED
            BY <3>3, <6>1, <6>2 DEF Write
        <5> QED
          BY <4>1, <5>1
      <4>3. Max({size, at + k}) < OffHalf
        <5>1. PICK x \in Nat, h \in Nat : x = at + k /\ size <= x /\ h = OffHalf /\ m < h /\ x <= m
          <6>1. pc \in AtTarget
            BY <3>3 DEF Write, AtTarget
          <6>2. m < OffHalf
            BY <4>1, <6>1, FileAt DEF SizesInv
          <6> QED
            BY <4>1, <6>2, Numbers
        <5>2. Max({size, x}) \in {size, x}
          BY MaxOfTwo
        <5> QED
          BY <5>1, <5>2
      <4>4. \A f \in Files : file'[f] = Max({size, at + k}) \/ file'[f] = file[f]
        BY <1>0, <4>1, <4>2 DEF TypeOK
      <4> QED
        BY <4>3, <4>4 DEF SizesInv
    <3> QED
      BY <3>1, <3>2, <3>3
  <2> QED
    BY <2>1, <2>2
<1>2. CASE Exit
  <2>1. DOMAIN targets' = {}
    BY <1>2 DEF Exit
  <2> QED
    BY <1>1, <2>1 DEF SizesInv
<1>3. CASE UNCHANGED targets
  BY <1>1, <1>3 DEF SizesInv
<1>4. CASE Stat /\ ~Exit
  <2>1. PICK p : p = cmd.paths[index]
    OBVIOUS
  <2>2. TypedSettings(cmd) /\ pc = "stat" /\ index \in Nat /\ index = Len(targets) + 1
        /\ index <= Len(cmd.paths)
    BY <1>0, <1>4, CmdTyped DEF Stat, IInv, IndexInv, TypeOK
  <2>3. p \in Paths
    <3>1. cmd.paths \in Seq(Paths) /\ Len(cmd.paths) \in Nat /\ Len(targets) \in Nat
      BY <1>0, <2>2, LenProperties DEF TypeOK, TypedSettings
    <3> QED
      BY <2>1, <2>2, <3>1, ElementOfSeq
  <2>4. PICK t : /\ t = TargetOf(cmd, p) /\ GoodPath(cmd, p) /\ GoodSize(TargetOf(cmd, p))
                 /\ targets' = Append(targets, t)
    BY <1>4, <2>1 DEF Stat
  <2>5. t \in Target
    BY <1>0, <2>2, <2>3, <2>4, TargetMade
  <2>10. t.thread_offset < OffHalf
    <3>1. t.thread_offset = cmd.thread_offset
      BY <2>4 DEF TargetOf
    <3> QED
      BY <2>2, <3>1 DEF TypedSettings
  <2>6. t.max_size < OffHalf
    <3>1. PICK sz : sz = IF cmd.create_file THEN cmd.size
                         ELSE IF p \in Devices THEN DeviceSize ELSE file[p]
      OBVIOUS
    <3>2. sz < OffHalf
      <4>1. DeviceSize < OffHalf
        BY WidthAssumption, StartupAssumption DEF WidthAssumption, StartupAssumption
      <4>2. p \in Files \cup Devices
        BY <2>3 DEF Paths
      <4> QED
        BY <2>2, <3>1, <4>1, <4>2 DEF TypedSettings, SizesInv
    <3>3. t.max_size = IF cmd.max_size = 0 THEN sz ELSE cmd.max_size
      BY <2>4, <3>1 DEF TargetOf
    <3> QED
      BY <2>2, <3>2, <3>3 DEF TypedSettings
  <2>7. PICK n \in Nat : n = Len(targets) /\ DOMAIN targets = 1 .. n
    BY <1>0, LenProperties DEF TypeOK
  <2>8. /\ DOMAIN targets' = 1 .. n + 1 /\ targets'[n + 1] = t
        /\ \A i \in 1 .. n : targets'[i] = targets[i]
    <3>1. targets \in Seq(Target)
      BY <1>0 DEF TypeOK
    <3> QED
      BY <2>4, <2>5, <2>7, <3>1, AppendProperties, LenProperties
  <2>9. \A i \in DOMAIN targets' : \/ i \in DOMAIN targets /\ targets'[i] = targets[i]
                                   \/ targets'[i] = t
    BY <2>7, <2>8
  <2> QED
    BY <1>1, <2>6, <2>9, <2>10 DEF SizesInv
<1> QED
  BY <1>2, <1>3, <1>4
  DEF Next, Step, Start, Stat, Parsed, Check, RemoveOld, Create, Write, LaidOut, AllSetUp, LookUp,
      Assign, StartThread, Run, Finish, Kill, vars, process

(* Every Target has passed the check of parse_options, those behind in      *)
(* run_job also the check of where its threads start; and what the threads  *)
(* are given is what ThreadParams makes of the command line.                *)
Checked(i) ==
  \/ pc \in AllDone
  \/ pc \in SettingUp /\ i < index
  \/ pc \in AtTarget /\ i = index

PlacesInv ==
  /\ \A i \in DOMAIN targets :
       /\ BlockFits(targets[i])
       /\ Checked(i) => ThreadsFit(targets[i], ThreadsPerTarget(cmd))
  /\ pc \in {"start", "stuck", "running"} =>
       /\ threads = ThreadParams(cmd)
       /\ total_overlap = (Len(targets) * ThreadsPerTarget(cmd) * cmd.overlap) % UIntMod

(* The Targets do not change, and the checks made of them remain.           *)
LEMMA PlacesStay ==
  ASSUME PlacesInv, UNCHANGED <<cmd, targets>>,
         \A i \in DOMAIN targets : Checked(i)' => Checked(i)
  PROVE  \A i \in DOMAIN targets' :
           /\ BlockFits(targets[i])'
           /\ Checked(i)' => ThreadsFit(targets[i], ThreadsPerTarget(cmd))'
<1>1. ASSUME NEW i \in DOMAIN targets
      PROVE  /\ BlockFits(targets[i])' <=> BlockFits(targets[i])
             /\ ThreadsFit(targets[i], ThreadsPerTarget(cmd))'
                  <=> ThreadsFit(targets[i], ThreadsPerTarget(cmd))
  BY DEF BlockFits, ThreadsFit, ThreadsPerTarget
<1>2. DOMAIN targets' = DOMAIN targets
  OBVIOUS
<1> QED
  BY <1>1, <1>2, Zenon DEF PlacesInv

(* One step of a process.                                                   *)
LEMMA PlacesStep ==
  ASSUME IInv, PlacesInv, [Next]_vars
  PROVE  PlacesInv'
<1>0. TypeOK /\ IndexInv
  BY DEF IInv
<1>1. CASE Exit
  <2>1. pc' = "exited" /\ DOMAIN targets' = {}
    BY <1>1 DEF Exit
  <2> QED
    BY <2>1 DEF PlacesInv
<1>2. ASSUME NEW c \in Commands, Start(c) PROVE PlacesInv'
  <2>1. pc' = "stat" /\ DOMAIN targets' = {}
    BY <1>0, <1>2 DEF Start, IndexInv
  <2> QED
    BY <2>1 DEF PlacesInv
<1>3. CASE Stat /\ ~Exit
  <2>1. PICK t : /\ GoodSize(t) /\ targets' = Append(targets, t) /\ pc = "stat"
                 /\ UNCHANGED <<pc, cmd>>
    BY <1>3 DEF Stat
  <2>2. PICK n \in Nat : n = Len(targets) /\ DOMAIN targets = 1 .. n
    BY <1>0, LenProperties DEF TypeOK
  <2>3. /\ DOMAIN targets' = 1 .. n + 1 /\ targets'[n + 1] = t
        /\ \A i \in 1 .. n : targets'[i] = targets[i]
    <3>1. targets \in Seq(Target)
      BY <1>0 DEF TypeOK
    <3>2. targets \in Seq(Target \cup {t})
      BY <3>1, ElementOfSeq, LenProperties, IsASeq
    <3> QED
      BY <2>1, <2>2, <3>2, AppendProperties, LenProperties
  <2>4. \A i \in DOMAIN targets' : \/ i \in DOMAIN targets /\ targets'[i] = targets[i]
                                   \/ targets'[i] = t
    BY <2>2, <2>3
  <2>5. BlockFits(t)
    BY <2>1 DEF GoodSize
  <2>6. \A i \in DOMAIN targets' : BlockFits(targets[i])'
    BY <2>4, <2>5 DEF PlacesInv, BlockFits
  <2>7. \A i : ~Checked(i)'
    BY <2>1 DEF Checked, AllDone, SettingUp, AtTarget
  <2> QED
    BY <2>1, <2>6, <2>7 DEF PlacesInv
<1>4. CASE Check /\ ~Exit
  <2>1. /\ pc = "setup" /\ UNCHANGED <<cmd, targets>>
        /\ ThreadsFit(targets[index], ThreadsPerTarget(cmd))
        /\ \/ pc' = "remove" /\ index' = index
           \/ pc' = "setup" /\ index' = index + 1
    BY <1>4 DEF Check, process
  <2>2. \A i \in DOMAIN targets : Checked(i)' => Checked(i) \/ i = index
    <3>1. index \in Nat /\ \A i \in DOMAIN targets : i \in Nat
      BY <1>0, LenProperties DEF TypeOK
    <3>2. \A i \in DOMAIN targets : i < index + 1 <=> i < index \/ i = index
      BY <3>1
    <3> QED
      BY <2>1, <3>2 DEF Checked, AllDone, SettingUp, AtTarget
  <2>3. ASSUME NEW i \in DOMAIN targets
        PROVE  /\ BlockFits(targets[i])'
               /\ Checked(i)' => ThreadsFit(targets[i], ThreadsPerTarget(cmd))'
    <3>1. BlockFits(targets[i]) /\ (Checked(i)' => ThreadsFit(targets[i], ThreadsPerTarget(cmd)))
      BY <2>1, <2>2 DEF PlacesInv
    <3>2. /\ BlockFits(targets[i])' <=> BlockFits(targets[i])
          /\ ThreadsFit(targets[i], ThreadsPerTarget(cmd))'
               <=> ThreadsFit(targets[i], ThreadsPerTarget(cmd))
      BY <2>1 DEF BlockFits, ThreadsFit, ThreadsPerTarget
    <3> QED
      BY <3>1, <3>2, Zenon
  <2>4. pc' \notin {"start", "stuck", "running"} /\ DOMAIN targets' = DOMAIN targets
    BY <2>1
  <2> QED
    BY <2>3, <2>4 DEF PlacesInv
<1>5. CASE /\ Parsed \/ RemoveOld \/ Create \/ Write \/ LaidOut \/ AllSetUp \/ LookUp
           /\ ~Exit
  <2>1. /\ UNCHANGED <<cmd, targets>>
        /\ pc' \notin {"start", "stuck", "running"}
    BY <1>5 DEF Parsed, RemoveOld, Create, Write, LaidOut, AllSetUp, LookUp, process
  <2>2. \A i \in DOMAIN targets : i \in Nat /\ index \in Nat
    BY <1>0, LenProperties DEF TypeOK
  <2>3. \A i \in DOMAIN targets : Checked(i)' => Checked(i)
    <3>1. CASE Parsed
      BY <2>2, <3>1 DEF Parsed, Checked, AllDone, SettingUp, AtTarget
    <3>2. CASE RemoveOld \/ Create \/ Write
      <4>1. pc \in AtTarget /\ pc' \in AtTarget /\ index' = index
        BY <1>5, <3>2 DEF RemoveOld, Create, Write, AtTarget, process
      <4> QED
        BY <4>1 DEF Checked, AllDone, SettingUp, AtTarget
    <3>3. CASE LaidOut
      <4>1. \A i \in DOMAIN targets : i < index + 1 => i < index \/ i = index
        BY <2>2
      <4> QED
        BY <3>3, <4>1 DEF LaidOut, Checked, AllDone, SettingUp, AtTarget
    <3>4. CASE AllSetUp
      <4>1. \A i \in DOMAIN targets : i < index
        <5>1. PICK n \in Nat : n = Len(targets) /\ DOMAIN targets = 1 .. n
          BY <1>0, LenProperties DEF TypeOK
        <5> QED
          BY <2>2, <3>4, <5>1 DEF AllSetUp
      <4> QED
        BY <3>4, <4>1 DEF AllSetUp, Checked, SettingUp
    <3>5. CASE LookUp
      BY <1>5, <3>5 DEF LookUp, Checked, AllDone
    <3> QED
      BY <1>5, <3>1, <3>2, <3>3, <3>4, <3>5
  <2>4. \A i \in DOMAIN targets' :
          /\ BlockFits(targets[i])'
          /\ Checked(i)' => ThreadsFit(targets[i], ThreadsPerTarget(cmd))'
    BY <2>1, <2>3, PlacesStay
  <2> QED
    BY <2>1, <2>4 DEF PlacesInv
<1>6. CASE /\ Assign \/ StartThread \/ Run \/ UNCHANGED vars
           /\ ~Exit
  <2>1. /\ UNCHANGED <<cmd, targets>>
        /\ \/ pc \in AllDone
           \/ UNCHANGED <<pc, index>>
    BY <1>6 DEF Assign, StartThread, Run, vars, process, AllDone
  <2>2. \A i \in DOMAIN targets : Checked(i)' => Checked(i)
    BY <2>1 DEF Checked, AllDone, SettingUp, AtTarget
  <2>3. \A i \in DOMAIN targets' :
          /\ BlockFits(targets[i])'
          /\ Checked(i)' => ThreadsFit(targets[i], ThreadsPerTarget(cmd))'
    BY <2>1, <2>2, PlacesStay
  <2>4. /\ ThreadParams(cmd)' = ThreadParams(cmd)
        /\ ThreadsPerTarget(cmd)' = ThreadsPerTarget(cmd)
    BY <2>1 DEF ThreadParams, ThreadsPerTarget
  <2>5. pc' \in {"start", "stuck", "running"} =>
          /\ threads' = ThreadParams(cmd)
          /\ total_overlap' = (Len(targets) * ThreadsPerTarget(cmd) * cmd.overlap) % UIntMod
    BY <1>6 DEF PlacesInv, Assign, StartThread, Run, vars, process
  <2> QED
    BY <2>1, <2>3, <2>4, <2>5 DEF PlacesInv
<1> QED
  BY <1>1, <1>2, <1>3, <1>4, <1>5, <1>6 DEF Next, Step, Finish, Kill

(* Threads start from different places of their targets, each with room for *)
(* its first block unless the distance of the last one overflows, when one  *)
(* of them begins outside, and the engine is told of as many operations as  *)
(* they submit, for any command line.                                       *)
THEOREM ThreadsStartApart == SafetySpec => []StartsApart
<1>1. Init => PlacesInv /\ SizesInv
  <2>1. SUFFICES ASSUME Init PROVE PlacesInv /\ SizesInv
    OBVIOUS
  <2>2. DOMAIN targets = {} /\ pc = "exited"
    BY <2>1 DEF Init
  <2>3. \A s \in FileSizes : s < OffHalf
    BY WidthAssumption, StartupAssumption DEF WidthAssumption, StartupAssumption, Absent
  <2>4. \A f \in Files : file[f] \in FileSizes
    BY <2>1 DEF Init
  <2> QED
    BY <2>2, <2>3, <2>4 DEF PlacesInv, SizesInv
<1>4. IInv /\ SizesInv /\ [Next]_vars => SizesInv'
  BY SizesStep
<1>2. IInv /\ PlacesInv /\ [Next]_vars => PlacesInv'
  BY PlacesStep
<1>3. IInv /\ PlacesInv /\ SizesInv => StartsApart
  <2>1. SUFFICES ASSUME IInv, PlacesInv, SizesInv, pc \in {"start", "running"}
                 PROVE  StartsApart
    BY DEF StartsApart
  <2> DEFINE T == ThreadParams(cmd)
             Of(j) == {i \in DOMAIN T : j \in Range(T[i].targets)}
             pairs == UNION {{i} \X DOMAIN T[i].targets : i \in DOMAIN T}
  <2>2. /\ TypeOK /\ threads = T
        /\ total_overlap = (Len(targets) * ThreadsPerTarget(cmd) * cmd.overlap) % UIntMod
        /\ Len(targets) = Len(cmd.paths)
    BY <2>1 DEF IInv, IndexInv, PlacesInv, AllDone
  <2>3. TypedSettings(cmd)
    BY <2>1, <2>2, CmdTyped
  <2>4. PICK l \in Nat, n \in Nat, o \in Nat :
          /\ l = Len(targets) /\ n = ThreadsPerTarget(cmd) /\ o = cmd.overlap
          /\ DOMAIN targets = 1 .. l
    BY <2>2, <2>3, LenProperties DEF TypeOK, TypedSettings, ThreadsPerTarget
  <2>5. /\ \A j \in 1 .. l :
             /\ \A r \in 0 .. n - 1 : \E i \in Of(j) : T[i].rel_thread_id = r
             /\ \A h, i \in Of(j) : T[h].rel_thread_id = T[i].rel_thread_id => h = i
             /\ \A i \in Of(j) : T[i].rel_thread_id \in 0 .. n - 1
        /\ Cardinality(pairs) = l * n
    BY <2>2, <2>3, <2>4, HandedOut
  <2> HIDE DEF T, Of
  <2>6. ASSUME NEW j \in 1 .. l
        PROVE  PlacesFit(targets[j], n) <=>
                 \A i \in Of(j) : PlaceInside(targets[j], T[i].rel_thread_id)
    <3>1. /\ targets[j] \in Target /\ targets[j].base_offset < targets[j].max_size
          /\ BlockFits(targets[j]) /\ ThreadsFit(targets[j], n)
      BY <2>1, <2>2, <2>4, TargetTyped DEF IInv, TargetInv, PlacesInv, Checked, AllDone
    <3>2. /\ n <= UIntMod /\ targets[j].max_size < OffHalf
          /\ targets[j].thread_offset < OffHalf
      BY <2>1, <2>3, <2>4 DEF SizesInv, ThreadsPerTarget, TypedSettings
    <3>3. ASSUME PlacesFit(targets[j], n), NEW i \in Of(j)
          PROVE  PlaceInside(targets[j], T[i].rel_thread_id)
      <4>1. T[i].rel_thread_id \in 0 .. n - 1
        BY <2>5
      <4> QED
        BY <3>1, <3>2, <3>3, <4>1, RoomForFirst
    <3>4. ASSUME ~PlacesFit(targets[j], n)
          PROVE  \E i \in Of(j) : ~PlaceInside(targets[j], T[i].rel_thread_id)
      <4>1. PICK k \in 0 .. n - 1 : ~PlaceInside(targets[j], k)
        BY <3>1, <3>2, <3>4, OneOutside
      <4>2. PICK i \in Of(j) : T[i].rel_thread_id = k
        BY <2>5, <4>1
      <4>3. ~PlaceInside(targets[j], T[i].rel_thread_id)
        BY <4>1, <4>2, Zenon
      <4> QED
        BY <4>3, Zenon
    <3> QED
      BY <3>3, <3>4, Zenon
  <2>7. total_overlap = (cmd.overlap * Cardinality(pairs)) % UIntMod
    <3>1. l * n * o = o * (l * n)
      OBVIOUS
    <3> HIDE DEF pairs
    <3> QED
      BY <2>2, <2>4, <2>5, <3>1, Zenon
  <2>8. \A j \in DOMAIN targets :
          /\ Of(j) # {} \/ ThreadsPerTarget(cmd) = 0
          /\ \A h, i \in Of(j) : T[h].rel_thread_id = T[i].rel_thread_id => h = i
          /\ PlacesFit(targets[j], ThreadsPerTarget(cmd)) <=>
               \A i \in Of(j) : PlaceInside(targets[j], T[i].rel_thread_id)
    <3>1. n = 0 \/ 0 \in 0 .. n - 1
      BY <2>4
    <3>2. \A j \in 1 .. l : Of(j) # {} \/ n = 0
      BY <2>5, <3>1, Zenon
    <3> QED
      BY <2>4, <2>5, <2>6, <3>2, Zenon
  <2> QED
    BY <2>2, <2>7, <2>8, Zenon DEF StartsApart, Of
<1> QED
  BY <1>1, <1>2, <1>3, <1>4, Invariance, PTL DEF SafetySpec

-----------------------------------------------------------------------------
(***************************************************************************)
(* What str_to_cpu_set makes of a text.                                    *)
(***************************************************************************)

(* What the loop adds from position i on, if f says so of those behind it.  *)
CpuTail(f, s, i) ==
  IF At(s, i) < 0 THEN {}
  ELSE IF At(s, i + 1) = Dash
    THEN IF At(s, i + 2) < 0 THEN {}
         ELSE CpuRange(s[i], s[i + 2]) \cup
                (IF At(s, i + 3) = Comma THEN f[i + 4] ELSE {})
    ELSE {s[i]} \cup (IF At(s, i + 1) = Comma THEN f[i + 2] ELSE {})

(* It looks at f only behind i, and not beyond the text.                    *)
LEMMA TailLooksAhead ==
  ASSUME NEW s \in Seq(Int), NEW i \in Nat \ {0}, NEW f, NEW g,
         \A j \in 1 .. Len(s) + 5 : j > i => f[j] = g[j]
  PROVE  CpuTail(f, s, i) = CpuTail(g, s, i)
<1>1. PICK n \in Nat : n = Len(s) /\ DOMAIN s = 1 .. n
  BY LenProperties
<1>2. \A k \in Nat : At(s, k) = Comma => k \in 1 .. n
  BY <1>1 DEF At, Other, Comma
<1>3. At(s, i + 3) = Comma => f[i + 4] = g[i + 4]
  <2>1. SUFFICES ASSUME i + 3 \in 1 .. n PROVE f[i + 4] = g[i + 4]
    BY <1>2
  <2> QED
    BY <1>1, <2>1
<1>4. At(s, i + 1) = Comma => f[i + 2] = g[i + 2]
  <2>1. SUFFICES ASSUME i + 1 \in 1 .. n PROVE f[i + 2] = g[i + 2]
    BY <1>2
  <2> QED
    BY <1>1, <2>1
<1> QED
  BY <1>3, <1>4, Zenon DEF CpuTail

(* The loop from each position on, from the end of the text up to the m-th  *)
(* before it.                                                               *)
IsTail(f, s, m) ==
  f = [i \in {j \in 1 .. Len(s) + 5 : j + m > Len(s) + 5} |-> CpuTail(f, s, i)]

(* There is such a function, however long the text.                         *)
LEMMA TailExists ==
  ASSUME NEW s \in Seq(Int), NEW m \in Nat
  PROVE  \E f : IsTail(f, s, m)
<1>1. PICK n \in Nat : n = Len(s) + 5 /\ n # 0
  BY LenProperties
<1> DEFINE Behind(k) == {j \in 1 .. n : j + k > n}
           Without == {k \in Nat : ~ \E f : f = [i \in Behind(k) |-> CpuTail(f, s, i)]}
<1>2. Without = {}
  <2>1. SUFFICES ASSUME Without # {} PROVE FALSE
    OBVIOUS
  <2>2. PICK k \in Without : \A l \in Without : k <= l
    BY <2>1, LeastNatural, Zenon
  <2>3. CASE k = 0
    <3>1. Behind(0) = {}
      OBVIOUS
    <3>2. <<>> = [i \in Behind(0) |-> CpuTail(<<>>, s, i)]
      BY <3>1
    <3> QED
      BY <2>2, <2>3, <3>2
  <2>4. CASE k # 0
    <3>1. k \in Nat /\ k - 1 \in Nat /\ k - 1 \notin Without
      <4>1. k \in Nat /\ k - 1 \in Nat /\ ~(k <= k - 1)
        BY <2>2, <2>4
      <4> HIDE DEF Without
      <4> QED
        BY <2>2, <4>1
    <3>2. PICK f : f = [i \in Behind(k - 1) |-> CpuTail(f, s, i)]
      BY <3>1
    <3> DEFINE h == [i \in Behind(k) |-> IF i \in Behind(k - 1) THEN f[i] ELSE CpuTail(f, s, i)]
    <3>3. ASSUME NEW i \in Behind(k) PROVE h[i] = CpuTail(h, s, i)
      <4>1. \A j \in 1 .. n : j > i => h[j] = f[j]
        BY <3>1
      <4>2. i \in Nat \ {0}
        OBVIOUS
      <4>3. CpuTail(h, s, i) = CpuTail(f, s, i)
        <5> HIDE DEF h
        <5> QED
          BY <1>1, <4>1, <4>2, TailLooksAhead
      <4>4. i \in Behind(k - 1) => f[i] = CpuTail(f, s, i)
        BY <3>2
      <4> QED
        BY <4>3, <4>4
    <3>4. h = [i \in Behind(k) |-> CpuTail(h, s, i)]
      BY <3>3
    <3> QED
      BY <2>2, <3>4
  <2> QED
    BY <2>3, <2>4
<1>3. PICK f : f = [i \in Behind(m) |-> CpuTail(f, s, i)]
  BY <1>2
<1>4. Behind(m) = {j \in 1 .. Len(s) + 5 : j + m > Len(s) + 5}
  BY <1>1, Zenon
<1> HIDE DEF Behind
<1> QED
  BY <1>3, <1>4, Zenon DEF IsTail

(* So CpuSet is what the loop adds from the beginning on.                   *)
LEMMA CpuSetIsTail ==
  ASSUME NEW s \in Seq(Int)
  PROVE  \E f : /\ CpuSet(s) = f[1]
                /\ \A i \in 1 .. Len(s) + 5 : f[i] = CpuTail(f, s, i)
<1> DEFINE f == CHOOSE g : g = [i \in 1 .. Len(s) + 5 |-> CpuTail(g, s, i)]
<1>1. CpuSet(s) = f[1]
  BY DEF CpuSet, CpuTail
<1>2. PICK n \in Nat : n = Len(s) + 5
  BY LenProperties
<1>3. {j \in 1 .. n : j + n > n} = 1 .. n
  OBVIOUS
<1>4. \E g : g = [i \in 1 .. Len(s) + 5 |-> CpuTail(g, s, i)]
  <2>1. PICK g : IsTail(g, s, n)
    BY TailExists
  <2> QED
    BY <1>2, <1>3, <2>1 DEF IsTail
<1>5. f = [i \in 1 .. Len(s) + 5 |-> CpuTail(f, s, i)]
  BY <1>4, Zenon
<1> HIDE DEF f
<1>6. \A i \in 1 .. Len(s) + 5 : f[i] = CpuTail(f, s, i)
  BY <1>5
<1> QED
  BY <1>1, <1>6


(* The CPUs the text names from position i on.                              *)
NamedFrom(s, i) ==
  {s[j] : j \in {k \in DOMAIN s : k >= i /\ s[k] >= 0 /\ Dash \notin {At(s, k - 1), At(s, k + 1)}}}
    \cup UNION {s[j - 1] .. s[j + 1] : j \in {k \in DOMAIN s : k >= i /\ s[k] = Dash}}

(* Odd and even positions alternate.                                        *)
LEMMA Parity ==
  ASSUME NEW i \in Nat, i % 2 = 1
  PROVE  (i + 1) % 2 = 0 /\ (i + 2) % 2 = 1 /\ (i + 3) % 2 = 0 /\ (i + 4) % 2 = 1
<1>1. PICK h \in Nat : i = 2 * h + 1
  BY i = 2 * (i \div 2) + (i % 2), i \div 2 \in Nat
<1> QED
  BY <1>1

(* The field at i of a text that is well-formed, and what follows it.       *)
LEMMA FieldRead ==
  ASSUME NEW s \in Seq(Int), WellFormed(s), NEW i \in DOMAIN s, i % 2 = 1,
         i = 1 \/ At(s, i - 1) = Comma
  PROVE  \/ /\ At(s, i + 1) = Dash /\ i + 2 \in DOMAIN s /\ s[i] >= 0 /\ s[i + 2] >= 0
            /\ \/ /\ At(s, i + 3) = Comma /\ i + 4 \in DOMAIN s
                  /\ NamedFrom(s, i) = (s[i] .. s[i + 2]) \cup NamedFrom(s, i + 4)
               \/ /\ At(s, i + 3) # Comma
                  /\ NamedFrom(s, i) = s[i] .. s[i + 2]
         \/ /\ At(s, i + 1) = Comma /\ i + 2 \in DOMAIN s /\ s[i] >= 0
            /\ NamedFrom(s, i) = {s[i]} \cup NamedFrom(s, i + 2)
         \/ /\ At(s, i + 1) \notin {Dash, Comma} /\ s[i] >= 0
            /\ NamedFrom(s, i) = {s[i]}
<1>0. PICK n \in Nat : n = Len(s) /\ DOMAIN s = 1 .. n
  BY LenProperties
<1>1. n \in Nat /\ DOMAIN s = 1 .. n
  BY <1>0
<1>p. n % 2 = 1
  BY <1>0 DEF WellFormed
<1>2. \A k \in 1 .. n : k % 2 = 1 => s[k] >= 0 /\ s[k] # Dash
  <2>1. ASSUME NEW k \in 1 .. n, k % 2 = 1 PROVE s[k] >= 0
    BY <1>1, <2>1 DEF WellFormed
  <2>2. ~(Dash >= 0)
    BY DEF Dash
  <2> QED
    BY <2>1, <2>2, Zenon
<1>3. \A k \in 1 .. n : k % 2 = 0 => s[k] \in {Dash, Comma} /\ ~(s[k] >= 0)
  <2>1. ASSUME NEW k \in 1 .. n, k % 2 = 0 PROVE s[k] \in {Dash, Comma}
    <3>1. ~(k % 2 = 1)
      BY <2>1
    <3> QED
      BY <1>1, <2>1, <3>1 DEF WellFormed
  <2>2. \A x \in {Dash, Comma} : ~(x >= 0)
    BY DEF Dash, Comma
  <2> QED
    BY <2>1, <2>2, Zenon
<1>4. \A k \in 1 .. n : s[k] = Dash => At(s, k + 2) # Dash
  BY <1>1 DEF WellFormed
<1>5. \A k \in Int : IF k \in 1 .. n THEN At(s, k) = s[k] ELSE At(s, k) = Other
  BY <1>1 DEF At
<1>6. Dash = -1 /\ Comma = -2 /\ Other = -3
  BY DEF Dash, Comma, Other
<1> DEFINE Single(k) == k \in 1 .. n /\ s[k] >= 0 /\ At(s, k - 1) # Dash /\ At(s, k + 1) # Dash
           Joined(k) == k \in 1 .. n /\ s[k] = Dash
<1>7. \A l \in Nat : \A x :
        x \in NamedFrom(s, l) <=>
          \/ \E k \in Nat : k >= l /\ Single(k) /\ x = s[k]
          \/ \E k \in Nat : k >= l /\ Joined(k) /\ x \in s[k - 1] .. s[k + 1]
  <2>1. \A k \in DOMAIN s : k \in Nat
    BY <1>1
  <2>2. \A k : k \in DOMAIN s <=> k \in 1 .. n
    BY <1>1
  <2> QED
    BY <2>1, <2>2, Zenon DEF NamedFrom
<1>i. i \in Nat /\ n \in Nat /\ i \in 1 .. n
  BY <1>1
<1>q. (i + 1) % 2 = 0 /\ (i + 2) % 2 = 1 /\ (i + 3) % 2 = 0
  BY <1>i, Parity
<1>8. ~Joined(i) /\ s[i] >= 0
  BY <1>2, <1>i, Zenon
<1>a. i + 1 \in 1 .. n => s[i + 1] \in {Dash, Comma} /\ ~(s[i + 1] >= 0)
  BY <1>3, <1>q, Zenon
<1>b. i + 2 \in 1 .. n => s[i + 2] >= 0 /\ s[i + 2] # Dash
  BY <1>2, <1>q, Zenon
<1>c. i + 3 \in 1 .. n => s[i + 3] \in {Dash, Comma} /\ ~(s[i + 3] >= 0)
  BY <1>3, <1>q, Zenon
<1>d. i + 1 \in 1 .. n => i + 2 \in 1 .. n
  <2>1. n # i + 1
    <3>1. ~(0 = 1)
      OBVIOUS
    <3> QED
      BY <1>p, <1>q, <3>1, Zenon
  <2> QED
    BY <1>i, <2>1
<1>e. i + 3 \in 1 .. n => i + 4 \in 1 .. n
  <2>1. n # i + 3
    <3>1. ~(0 = 1)
      OBVIOUS
    <3> QED
      BY <1>p, <1>q, <3>1, Zenon
  <2> QED
    BY <1>i, <2>1
<1>n. /\ At(s, i + 1) = IF i + 1 \in 1 .. n THEN s[i + 1] ELSE Other
      /\ At(s, i + 3) = IF i + 3 \in 1 .. n THEN s[i + 3] ELSE Other
  BY <1>1 DEF At
<1>9. At(s, i - 1) # Dash
  BY <1>1, <1>5, <1>6
<1>10. CASE At(s, i + 1) = Dash
  <2>1. i + 1 \in 1 .. n /\ s[i + 1] = Dash
    BY <1>6, <1>n, <1>10
  <2>2. i + 2 \in 1 .. n
    BY <1>d, <2>1
  <2>3. s[i + 2] >= 0 /\ ~Joined(i + 2) /\ ~Single(i + 2)
    <3>1. s[i + 2] >= 0 /\ s[i + 2] # Dash
      BY <1>b, <2>2
    <3>2. (i + 2) - 1 = i + 1 /\ i + 1 \in Int
      BY <1>i
    <3>3. At(s, i + 1) = Dash
      BY <1>10
    <3> QED
      BY <3>1, <3>2, <3>3
  <2>4. ~Single(i) /\ ~Single(i + 1) /\ Joined(i + 1)
    BY <1>6, <1>10, <2>1
  <2>5. At(s, i + 3) # Dash
    BY <1>4, <2>1
  <2>6. ~Single(i + 3) /\ ~Joined(i + 3)
    BY <1>c, <1>n, <2>5
  <2> HIDE DEF Single, Joined
  <2>7. \A k \in Nat : k >= i => k \in {i, i + 1, i + 2, i + 3} \/ k >= i + 4
    <3>1. PICK m \in Nat : m = i
      BY <1>i
    <3>2. \A k \in Nat : k >= m => k = m \/ k = m + 1 \/ k = m + 2 \/ k = m + 3 \/ k >= m + 4
      OBVIOUS
    <3> QED
      BY <3>1, <3>2, Zenon
  <2>8. \A x : x \in NamedFrom(s, i) <=> x \in s[i] .. s[i + 2] \/ x \in NamedFrom(s, i + 4)
    <3>1. \A k \in Nat : k >= i /\ Single(k) => k >= i + 4
      BY <1>8, <2>3, <2>4, <2>6, <2>7
    <3>2. \A k \in Nat : k >= i /\ Joined(k) => k >= i + 4 \/ k = i + 1
      BY <1>8, <2>3, <2>4, <2>6, <2>7
    <3>3. (i + 1) - 1 = i /\ (i + 1) + 1 = i + 2 /\ i + 1 \in Nat /\ i + 1 >= i
          /\ i \in Nat /\ i + 4 \in Nat /\ \A k \in Nat : k >= i + 4 => k >= i
      <4>1. PICK m \in Nat : m = i
        BY <1>i
      <4>2. /\ (m + 1) - 1 = m /\ (m + 1) + 1 = m + 2 /\ m + 1 \in Nat /\ m + 1 >= m
            /\ m + 4 \in Nat /\ \A k \in Nat : k >= m + 4 => k >= m
        OBVIOUS
      <4> QED
        BY <4>1, <4>2, Zenon
    <3>4. \A x : x \in NamedFrom(s, i) <=>
            \/ \E k \in Nat : k >= i /\ Single(k) /\ x = s[k]
            \/ \E k \in Nat : k >= i /\ Joined(k) /\ x \in s[k - 1] .. s[k + 1]
      BY <1>7, <3>3, Zenon
    <3>5. \A x : x \in NamedFrom(s, i + 4) <=>
            \/ \E k \in Nat : k >= i + 4 /\ Single(k) /\ x = s[k]
            \/ \E k \in Nat : k >= i + 4 /\ Joined(k) /\ x \in s[k - 1] .. s[k + 1]
      BY <1>7, <3>3, Zenon
    <3>6. ASSUME NEW x, x \in NamedFrom(s, i)
          PROVE  x \in s[i] .. s[i + 2] \/ x \in NamedFrom(s, i + 4)
      BY <3>1, <3>2, <3>3, <3>4, <3>5, <3>6, Zenon
    <3>7. ASSUME NEW x, x \in NamedFrom(s, i + 4) PROVE x \in NamedFrom(s, i)
      BY <3>3, <3>4, <3>5, <3>7, Zenon
    <3>8. ASSUME NEW x, x \in s[i] .. s[i + 2] PROVE x \in NamedFrom(s, i)
      BY <2>4, <3>3, <3>4, <3>8, Zenon
    <3> QED
      BY <3>6, <3>7, <3>8
  <2>9. CASE At(s, i + 3) = Comma
    <3>1. i + 3 \in 1 .. n
      BY <1>6, <1>n, <2>9
    <3>2. i + 4 \in 1 .. n
      BY <1>e, <3>1
    <3> QED
      BY <1>1, <1>8, <1>10, <2>2, <2>3, <2>8, <2>9, <3>2
  <2>10. CASE At(s, i + 3) # Comma
    <3>1. ~(i + 3 \in 1 .. n)
      BY <1>c, <1>n, <2>5, <2>10
    <3>2. NamedFrom(s, i + 4) = {}
      <4>1. \A k \in DOMAIN s : ~(k >= i + 4)
        BY <1>1, <1>i, <3>1
      <4> QED
        BY <4>1 DEF NamedFrom
    <3> QED
      BY <1>1, <1>8, <1>10, <2>2, <2>3, <2>8, <2>10, <3>2
  <2> QED
    BY <2>9, <2>10
<1>11. CASE At(s, i + 1) # Dash
  <2>1. Single(i) /\ ~Single(i + 1) /\ ~Joined(i + 1)
    <3>1. At(s, i - 1) # Dash /\ At(s, i + 1) # Dash
      BY <1>9, <1>11
    <3>2. Single(i)
      BY <1>i, <1>8, <3>1
    <3> QED
      BY <1>a, <1>n, <3>1, <3>2
  <2> HIDE DEF Single, Joined
  <2>2. \A x : x \in NamedFrom(s, i) <=> x = s[i] \/ x \in NamedFrom(s, i + 2)
    <3>1. \A k \in Nat : k >= i /\ Single(k) => k >= i + 2 \/ k = i
      <4>1. \A k \in Nat : k >= i => k >= i + 2 \/ k = i \/ k = i + 1
        BY <1>i
      <4> QED
        BY <2>1, <4>1, Zenon
    <3>2. \A k \in Nat : k >= i /\ Joined(k) => k >= i + 2
      <4>1. \A k \in Nat : k >= i => k >= i + 2 \/ k = i \/ k = i + 1
        BY <1>i
      <4> QED
        BY <1>8, <2>1, <4>1, Zenon
    <3>3. i \in Nat /\ i >= i /\ i + 2 \in Nat /\ \A k \in Nat : k >= i + 2 => k >= i
      BY <1>i
    <3>4. \A x : x \in NamedFrom(s, i) <=>
            \/ \E k \in Nat : k >= i /\ Single(k) /\ x = s[k]
            \/ \E k \in Nat : k >= i /\ Joined(k) /\ x \in s[k - 1] .. s[k + 1]
      BY <1>7, <3>3, Zenon
    <3>5. \A x : x \in NamedFrom(s, i + 2) <=>
            \/ \E k \in Nat : k >= i + 2 /\ Single(k) /\ x = s[k]
            \/ \E k \in Nat : k >= i + 2 /\ Joined(k) /\ x \in s[k - 1] .. s[k + 1]
      BY <1>7, <3>3, Zenon
    <3>6. ASSUME NEW x, x \in NamedFrom(s, i)
          PROVE  x = s[i] \/ x \in NamedFrom(s, i + 2)
      BY <3>1, <3>2, <3>3, <3>4, <3>5, <3>6, Zenon
    <3>7. ASSUME NEW x, x \in NamedFrom(s, i + 2) PROVE x \in NamedFrom(s, i)
      BY <3>3, <3>4, <3>5, <3>7, Zenon
    <3>8. s[i] \in NamedFrom(s, i)
      BY <2>1, <3>3, <3>4, Zenon
    <3> QED
      BY <3>6, <3>7, <3>8, Zenon
  <2>3. CASE At(s, i + 1) = Comma
    <3>1. i + 1 \in 1 .. n
      BY <1>6, <1>n, <2>3
    <3>2. i + 2 \in 1 .. n
      BY <1>d, <3>1
    <3> QED
      BY <1>1, <1>8, <2>2, <2>3, <3>2
  <2>4. CASE At(s, i + 1) # Comma
    <3>1. ~(i + 1 \in 1 .. n)
      BY <1>a, <1>n, <1>11, <2>4
    <3>2. NamedFrom(s, i + 2) = {}
      <4>1. \A k \in DOMAIN s : ~(k >= i + 2)
        BY <1>1, <1>i, <3>1
      <4> QED
        BY <4>1 DEF NamedFrom
    <3> QED
      BY <1>8, <1>11, <2>2, <2>4, <3>2
  <2> QED
    BY <2>3, <2>4
<1> QED
  BY <1>10, <1>11

(* str_to_cpu_set reads a well-formed text of any length as what options.h  *)
(* says of it.                                                              *)
THEOREM CpuSetReadsText ==
  ASSUME NEW s \in Seq(Int), WellFormed(s)
  PROVE  CpuSet(s) = Named(s)
<1>1. PICK n \in Nat : n = Len(s) /\ DOMAIN s = 1 .. n /\ n % 2 = 1
  BY LenProperties DEF WellFormed
<1>2. PICK f : CpuSet(s) = f[1] /\ \A i \in 1 .. Len(s) + 5 : f[i] = CpuTail(f, s, i)
  BY CpuSetIsTail
<1> DEFINE Begins(i) == i \in DOMAIN s /\ i % 2 = 1 /\ (i = 1 \/ At(s, i - 1) = Comma)
           Wrong == {k \in 0 .. n : Begins(n - k) /\ f[n - k] # NamedFrom(s, n - k)}
<1>3. Wrong = {}
  <2>1. SUFFICES ASSUME Wrong # {} PROVE FALSE
    OBVIOUS
  <2>2. Wrong \subseteq Nat
    OBVIOUS
  <2>3. PICK k \in Wrong : \A l \in Wrong : k <= l
    BY <2>1, <2>2, LeastNatural, Zenon
  <2>4. PICK i : i = n - k /\ Begins(i) /\ f[i] # NamedFrom(s, i) /\ i \in 1 .. n
    BY <1>1, <2>3
  <2>5. \A j \in 1 .. n : j > i /\ Begins(j) => f[j] = NamedFrom(s, j)
    <3>1. SUFFICES ASSUME NEW j \in 1 .. n, j > i, Begins(j), f[j] # NamedFrom(s, j)
                   PROVE  FALSE
      OBVIOUS
    <3>2. n - j \in 0 .. n /\ n - (n - j) = j /\ ~(k <= n - j)
      BY <2>3, <2>4, <3>1
    <3>3. n - j \in Wrong
      BY <3>1, <3>2
    <3> HIDE DEF Wrong
    <3> QED
      BY <2>3, <3>2, <3>3
  <2>6. f[i] = CpuTail(f, s, i)
    BY <1>1, <1>2, <2>4
  <2>7. At(s, i) = s[i] /\ \A j \in DOMAIN s : At(s, j) = s[j]
    BY <1>1, <2>4 DEF At
  <2>8. (i + 2) % 2 = 1 /\ (i + 4) % 2 = 1 /\ (i + 2) - 1 = i + 1 /\ (i + 4) - 1 = i + 3
        /\ i + 2 > i /\ i + 4 > i /\ i \in Int
    BY <2>4, Parity
  <2>9. \A x \in Int : x >= 0 => ~(x < 0)
    OBVIOUS
  <2>10. \A j \in DOMAIN s : s[j] \in Int
    BY ElementOfSeq, LenProperties
  <2>11. Dash # Comma
    BY DEF Dash, Comma
  <2>12. At(s, i + 1) = Dash /\ i + 2 \in DOMAIN s =>
           f[i] = (s[i] .. s[i + 2]) \cup (IF At(s, i + 3) = Comma THEN f[i + 4] ELSE {})
                  \/ s[i] < 0 \/ s[i + 2] < 0
    BY <2>6, <2>7, Zenon DEF CpuTail, CpuRange
  <2>13. At(s, i + 1) # Dash =>
           f[i] = {s[i]} \cup (IF At(s, i + 1) = Comma THEN f[i + 2] ELSE {}) \/ s[i] < 0
    BY <2>6, <2>7, Zenon DEF CpuTail
  <2>14. i + 4 \in DOMAIN s /\ At(s, i + 3) = Comma => f[i + 4] = NamedFrom(s, i + 4)
    BY <1>1, <2>5, <2>8
  <2>15. i + 2 \in DOMAIN s /\ At(s, i + 1) = Comma => f[i + 2] = NamedFrom(s, i + 2)
    BY <1>1, <2>5, <2>8
  <2>16. i \in DOMAIN s /\ i % 2 = 1 /\ (i = 1 \/ At(s, i - 1) = Comma)
    BY <2>4
  <2> HIDE DEF Begins, Wrong
  <2>17. \/ /\ At(s, i + 1) = Dash /\ i + 2 \in DOMAIN s /\ s[i] >= 0 /\ s[i + 2] >= 0
            /\ \/ /\ At(s, i + 3) = Comma /\ i + 4 \in DOMAIN s
                  /\ NamedFrom(s, i) = (s[i] .. s[i + 2]) \cup NamedFrom(s, i + 4)
               \/ /\ At(s, i + 3) # Comma
                  /\ NamedFrom(s, i) = s[i] .. s[i + 2]
         \/ /\ At(s, i + 1) = Comma /\ i + 2 \in DOMAIN s /\ s[i] >= 0
            /\ NamedFrom(s, i) = {s[i]} \cup NamedFrom(s, i + 2)
         \/ /\ At(s, i + 1) \notin {Dash, Comma} /\ s[i] >= 0
            /\ NamedFrom(s, i) = {s[i]}
    BY <2>16, FieldRead
  <2>18. ~(s[i] < 0) /\ (i + 2 \in DOMAIN s /\ s[i + 2] >= 0 => ~(s[i + 2] < 0))
    BY <2>9, <2>10, <2>16, <2>17, Zenon
  <2> QED
    BY <2>4, <2>11, <2>12, <2>13, <2>14, <2>15, <2>17, <2>18
<1>4. n >= 1
  BY <1>1
<1>5. Begins(1) /\ n - 1 \in 0 .. n /\ n - (n - 1) = 1
  BY <1>1, <1>4
<1>6. f[1] = NamedFrom(s, 1)
  BY <1>3, <1>5
<1>7. NamedFrom(s, 1) = Named(s)
  BY <1>1 DEF NamedFrom, Named
<1> QED
  BY <1>2, <1>6, <1>7


-----------------------------------------------------------------------------
(***************************************************************************)
(* The CPUs of the threads.                                                *)
(***************************************************************************)

(* How many of the threads of s are on CPU c.                               *)
Load(s, c) == Cardinality({i \in DOMAIN s : s[i] = c})

(* Threads are on the CPUs in turn: in the q rounds that are over each CPU  *)
(* got one, in the current one those up to the last CPU that got any.       *)
InTurn(s, cpus) ==
  /\ Range(s) \subseteq cpus
  /\ \E q \in Nat : \A c \in cpus :
       Load(s, c) = q + IF s # <<>> /\ c <= s[Len(s)] THEN 1 ELSE 0

(* One thread more.                                                         *)
LEMMA LoadOfAppend ==
  ASSUME NEW S, NEW s \in Seq(S), NEW n \in S, NEW c
  PROVE  /\ Load(s, c) \in Nat
         /\ Load(Append(s, n), c) = Load(s, c) + IF n = c THEN 1 ELSE 0
<1>1. PICK l \in Nat : l = Len(s) /\ DOMAIN s = 1 .. l
  BY LenProperties
<1>2. /\ DOMAIN Append(s, n) = 1 .. l + 1 /\ Append(s, n)[l + 1] = n
      /\ \A i \in 1 .. l : Append(s, n)[i] = s[i]
  BY <1>1, AppendProperties, LenProperties
<1> DEFINE On == {i \in 1 .. l : s[i] = c}
<1>3. IsFiniteSet(On) /\ Cardinality(On) \in Nat
  BY IntervalCount, FS_Subset, FS_CardinalityType
<1>4. {i \in DOMAIN Append(s, n) : Append(s, n)[i] = c}
        = IF n = c THEN On \cup {l + 1} ELSE On
  <2>1. \A i : i \in 1 .. l + 1 <=> i \in 1 .. l \/ i = l + 1
    OBVIOUS
  <2> QED
    BY <1>2, <2>1
<1>5. l + 1 \notin On
  OBVIOUS
<1>6. IF n = c THEN Cardinality(On \cup {l + 1}) = Cardinality(On) + 1 ELSE TRUE
  BY <1>3, <1>5, FS_AddElement
<1>7. Load(s, c) = Cardinality(On)
  BY <1>1 DEF Load
<1> HIDE DEF On
<1>8. Load(Append(s, n), c) = IF n = c THEN Cardinality(On \cup {l + 1}) ELSE Cardinality(On)
  BY <1>4 DEF Load
<1>9. CASE n = c
  BY <1>3, <1>6, <1>7, <1>8, <1>9
<1>10. CASE n # c
  BY <1>3, <1>7, <1>8, <1>10
<1> QED
  BY <1>9, <1>10

(* The least of a set of numbers.                                           *)
LEMMA MinOf ==
  ASSUME NEW S \in SUBSET Nat, S # {}
  PROVE  Min(S) \in S /\ \A c \in S : Min(S) <= c
BY LeastNatural DEF Min

(* The iterator over affinity_cpus keeps to the turn.                       *)
LEMMA NextCpu ==
  ASSUME NEW cpus \in SUBSET Nat, cpus # {}, NEW s, NEW S, s \in Seq(S), InTurn(s, cpus),
         NEW next, next = IF s = <<>> THEN Min(cpus) ELSE CpuAfter(cpus, s[Len(s)])
  PROVE  InTurn(Append(s, next), cpus)
<1>1. PICK l \in Nat : l = Len(s) /\ DOMAIN s = 1 .. l /\ s \in Seq(cpus)
  BY ElementOfSeq, LenProperties, IsASeq DEF InTurn, Range
<1>2. Min(cpus) \in cpus /\ \A c \in cpus : Min(cpus) <= c
  BY MinOf
<1>3. s # <<>> => l \in 1 .. l /\ s[l] \in cpus
  BY <1>1, EmptySeq, ElementOfSeq
<1>m. PICK m \in Nat : s # <<>> => m = s[l] /\ m \in cpus
  BY <1>3
<1>4. \/ s = <<>> /\ next \in cpus /\ \A c \in cpus : next <= c
      \/ /\ s # <<>> /\ next \in cpus /\ next > s[l]
         /\ \A c \in cpus : c > s[l] => next <= c
      \/ /\ s # <<>> /\ next \in cpus /\ \A c \in cpus : next <= c
         /\ \A c \in cpus : c <= s[l]
  <2>1. CASE s = <<>>
    BY <1>2, <2>1
  <2>2. CASE s # <<>> /\ \E c \in cpus : c > s[l]
    <3> DEFINE After == {c \in cpus : c > s[l]}
    <3>1. After \in SUBSET Nat /\ After # {}
      BY <2>2
    <3>2. next = Min(After)
      BY <1>1, <2>2 DEF CpuAfter
    <3>3. Min(After) \in After /\ \A c \in After : Min(After) <= c
      BY <3>1, MinOf
    <3> QED
      BY <2>2, <3>2, <3>3
  <2>3. CASE s # <<>> /\ ~ \E c \in cpus : c > s[l]
    <3>1. next = Min(cpus)
      BY <1>1, <2>3 DEF CpuAfter
    <3>2. \A c \in cpus : c <= s[l]
      <4>1. \A c \in cpus : ~(c > m) /\ c \in Nat
        BY <1>m, <2>3
      <4>2. \A c \in cpus : c <= m
        BY <4>1
      <4> QED
        BY <1>m, <2>3, <4>2
    <3> QED
      BY <1>2, <2>3, <3>1, <3>2
  <2> QED
    BY <2>1, <2>2, <2>3
<1>5. next \in cpus
  BY <1>4
<1>6. PICK q \in Nat : \A c \in cpus :
        Load(s, c) = q + IF s # <<>> /\ c <= s[l] THEN 1 ELSE 0
  BY <1>1 DEF InTurn
<1> DEFINE t == Append(s, next)
<1>7. /\ t # <<>> /\ Len(t) = l + 1 /\ t[Len(t)] = next
      /\ DOMAIN t = 1 .. l + 1 /\ \A i \in 1 .. l : t[i] = s[i]
  BY <1>1, <1>5, AppendProperties, LenProperties
<1>8. Range(t) \subseteq cpus
  <2>1. \A i \in 1 .. l + 1 : i \in 1 .. l \/ i = l + 1
    OBVIOUS
  <2>2. \A i \in 1 .. l : s[i] \in cpus
    BY <1>1, ElementOfSeq
  <2> QED
    BY <1>5, <1>7, <2>1, <2>2 DEF Range
<1>9. \A c \in cpus : Load(t, c) = Load(s, c) + IF next = c THEN 1 ELSE 0
  BY <1>1, <1>5, LoadOfAppend
<1> HIDE DEF t
<1>10. ASSUME s = <<>> \/ next > m,
              IF s = <<>> THEN \A c \in cpus : next <= c
              ELSE \A c \in cpus : c > m => next <= c
       PROVE  \A c \in cpus : Load(t, c) = q + IF c <= next THEN 1 ELSE 0
  <2>1. ASSUME NEW c \in cpus
        PROVE  Load(t, c) = q + IF c <= next THEN 1 ELSE 0
    <3>1. PICK a \in Nat, b \in Nat : a = c /\ b = next
      BY <1>5, <2>1
    <3>2. CASE s = <<>>
      <4>1. b <= a /\ (a <= b <=> b = a)
        BY <1>10, <2>1, <3>1, <3>2
      <4>2. Load(s, c) = q /\ Load(t, c) = Load(s, c) + IF b = a THEN 1 ELSE 0
        BY <1>6, <1>9, <2>1, <3>1, <3>2
      <4> QED
        BY <3>1, <4>1, <4>2
    <3>3. CASE s # <<>>
      <4>1. b > m /\ (a > m => b <= a)
        BY <1>10, <2>1, <3>1, <3>3
      <4>2. /\ Load(s, c) = q + IF a <= m THEN 1 ELSE 0
            /\ Load(t, c) = Load(s, c) + IF b = a THEN 1 ELSE 0
        BY <1>m, <1>6, <1>9, <2>1, <3>1, <3>3
      <4> QED
        BY <3>1, <4>1, <4>2
    <3> QED
      BY <3>2, <3>3
  <2> QED
    BY <2>1
<1>11. ASSUME s # <<>>, \A c \in cpus : next <= c /\ c <= s[l]
       PROVE  \A c \in cpus : Load(t, c) = (q + 1) + IF c <= next THEN 1 ELSE 0
  <2>1. \A c \in cpus : c <= next <=> next = c
    BY <1>5, <1>11
  <2>2. \A c \in cpus : Load(s, c) = q + 1
    BY <1>6, <1>11
  <2> QED
    BY <1>9, <2>1, <2>2
<1>12. \E r \in Nat : \A c \in cpus : Load(t, c) = r + IF c <= next THEN 1 ELSE 0
  <2>1. CASE s = <<>> /\ \A c \in cpus : next <= c
    BY <1>10, <2>1
  <2>2. CASE s # <<>> /\ next > s[l] /\ \A c \in cpus : c > s[l] => next <= c
    BY <1>m, <1>10, <2>2
  <2>3. CASE s # <<>> /\ \A c \in cpus : next <= c /\ c <= s[l]
    <3>1. \A c \in cpus : Load(t, c) = (q + 1) + IF c <= next THEN 1 ELSE 0
      BY <1>11, <2>3, Zenon
    <3>2. q + 1 \in Nat
      OBVIOUS
    <3> QED
      BY <3>1, <3>2
  <2> QED
    BY <1>4, <2>1, <2>2, <2>3
<1>13. \E r \in Nat : \A c \in cpus :
         Load(t, c) = r + IF t # <<>> /\ c <= t[Len(t)] THEN 1 ELSE 0
  BY <1>7, <1>12
<1> QED
  BY <1>8, <1>13 DEF InTurn, t


(* A text of -a that names CPUs, or none.                                   *)
GoodAffinity == cmd.affinity_given => WellFormed(cmd.affinity)

CpusNamed == IF cmd.affinity_given THEN Named(cmd.affinity) ELSE Online

(* Threads begin to start when none has, and the thread at hand is the next *)
(* one.                                                                     *)
CpusInv ==
  /\ pc \notin {"start", "stuck", "running"} => cpu = <<>>
  /\ pc = "start" => index = Len(cpu) + 1
  /\ (pc \in {"start", "running"} /\ ~cmd.disable_affinity /\ GoodAffinity) =>
       InTurn(cpu, CpusNamed)

(* The text of -a.                                                          *)
LEMMA AffinityTyped ==
  ASSUME TypeOK, pc # "exited"
  PROVE  cmd.affinity \in Seq(Int)
<1>1. PICK c \in Commands : cmd = Settings(c)
  BY DEF TypeOK, AllSettings
<1>2. get_arg(c, "a") \in Seq(Int)
  BY ArgIsThere
<1> QED
  BY <1>1, <1>2 DEF Settings

(* CPUs have natural numbers.                                               *)
LEMMA CpusAreNumbers ==
  ASSUME cmd.affinity \in Seq(Int), GoodAffinity
  PROVE  Affinity(cmd) = CpusNamed /\ CpusNamed \subseteq Nat
<1>1. CASE cmd.affinity_given
  <2>1. cmd.affinity \in Seq(Int) /\ WellFormed(cmd.affinity)
    BY <1>1 DEF GoodAffinity
  <2>2. CpuSet(cmd.affinity) = Named(cmd.affinity)
    BY <2>1, CpuSetReadsText
  <2>3. Named(cmd.affinity) \subseteq Nat
    <3> DEFINE s == cmd.affinity
    <3>1. PICK n \in Nat : n = Len(s) /\ DOMAIN s = 1 .. n /\ n % 2 = 1
      BY <2>1, LenProperties DEF WellFormed
    <3>2. \A i \in DOMAIN s : s[i] \in Int
      BY <2>1, ElementOfSeq, LenProperties
    <3>3. \A i \in DOMAIN s : s[i] = Dash => s[i - 1] \in Nat
      <4>1. SUFFICES ASSUME NEW i \in 1 .. n, s[i] = Dash PROVE s[i - 1] \in Nat
        BY <3>1
      <4>2. i % 2 # 1
        BY <2>1, <3>1, <4>1 DEF WellFormed, Dash
      <4>3. i - 1 \in 1 .. n /\ (i - 1) % 2 = 1
        BY <4>1, <4>2
      <4>4. s[i - 1] >= 0
        BY <2>1, <3>1, <4>3 DEF WellFormed
      <4> QED
        BY <3>1, <3>2, <4>3, <4>4
    <3>4. ASSUME NEW x \in Named(s) PROVE x \in Nat
      <4>1. CASE \E i \in DOMAIN s : s[i] >= 0 /\ x = s[i]
        BY <3>2, <4>1
      <4>2. CASE \E i \in DOMAIN s : s[i] = Dash /\ x \in s[i - 1] .. s[i + 1]
        <5>1. PICK i \in DOMAIN s : s[i - 1] \in Nat /\ x \in s[i - 1] .. s[i + 1]
          BY <3>3, <4>2
        <5>2. PICK a, b : a \in Nat /\ a = s[i - 1] /\ b = s[i + 1]
          BY <5>1
        <5> QED
          BY <5>1, <5>2
      <4> HIDE DEF s
      <4> QED
        BY <3>4, <4>1, <4>2 DEF Named
    <3> QED
      BY <3>4
  <2> QED
    BY <1>1, <2>2, <2>3 DEF Affinity, CpusNamed
<1>2. CASE ~cmd.affinity_given
  BY <1>2, StartupAssumption DEF Affinity, CpusNamed, StartupAssumption
<1> QED
  BY <1>1, <1>2

(* One step of a process.                                                   *)
LEMMA CpusStep ==
  ASSUME IInv, CpusInv, [Next]_vars
  PROVE  CpusInv'
<1>0. TypeOK
  BY DEF IInv
<1>1. CASE Exit
  BY <1>1 DEF Exit, CpusInv
<1>2. CASE pc' \notin {"start", "stuck", "running"} /\ cpu' = cpu
           /\ pc \notin {"start", "stuck", "running"}
  BY <1>2 DEF CpusInv
<1>3. CASE Assign /\ ~Exit
  <2>1. pc = "lookup" /\ pc' = "start" /\ index' = 1 /\ cpu' = cpu
    BY <1>3 DEF Assign
  <2>2. cpu' = <<>>
    BY <2>1 DEF CpusInv
  <2>3. Len(<<>>) = 0
    OBVIOUS
  <2>4. InTurn(<<>>, CpusNamed')
    <3>1. \A c : {i \in DOMAIN <<>> : <<>>[i] = c} = {}
      OBVIOUS
    <3>2. Cardinality({}) = 0
      BY FS_EmptySet
    <3>3. \A c : Load(<<>>, c) = 0
      BY <3>1, <3>2, Zenon DEF Load
    <3>4. Range(<<>>) = {}
      BY DEF Range
    <3>5. \A c : Load(<<>>, c) = 0 + IF <<>> # <<>> /\ c <= <<>>[Len(<<>>)] THEN 1 ELSE 0
      BY <3>3
    <3> QED
      BY <3>4, <3>5 DEF InTurn
  <2> QED
    BY <2>1, <2>2, <2>3, <2>4 DEF CpusInv
<1>4. CASE StartThread /\ ~Exit
  <2> DEFINE cpus == Affinity(cmd)
             next == IF cpus = {} THEN 0
                     ELSE IF index = 1 THEN Min(cpus) ELSE CpuAfter(cpus, cpu[index - 1])
  <2>1. /\ pc = "start" /\ index' = index + 1 /\ cmd' = cmd
        /\ pc' = IF cpus = {} /\ ~cmd.disable_affinity THEN "stuck" ELSE "start"
        /\ cpu' = Append(cpu, IF cmd.disable_affinity THEN Absent ELSE next)
        /\ cmd.disable_affinity \/ next \in Online
    BY <1>4 DEF StartThread
  <2>2. /\ cpu \in Seq(Nat \cup {Absent}) /\ index = Len(cpu) + 1
        /\ cmd.affinity \in Seq(Int)
    BY <1>0, <2>1, AffinityTyped DEF TypeOK, CpusInv
  <2>3. Len(cpu') = Len(cpu) + 1
    <3>1. PICK x \in Nat \cup {Absent} : x = IF cmd.disable_affinity THEN Absent ELSE next
      BY <2>1, StartupAssumption DEF StartupAssumption
    <3>2. cpu' = Append(cpu, x)
      BY <2>1, <3>1
    <3> QED
      BY <2>2, <3>2, AppendProperties
  <2>4. ASSUME pc' = "start", ~cmd.disable_affinity, GoodAffinity
        PROVE  InTurn(cpu, CpusNamed)'
    <3>1. InTurn(cpu, CpusNamed)
      BY <2>1, <2>4 DEF CpusInv
    <3>2. cpus = CpusNamed /\ CpusNamed \in SUBSET Nat
      BY <2>2, <2>4, CpusAreNumbers
    <3>3. cpus # {}
      BY <2>1, <2>4
    <3>4. PICK l \in Nat : l = Len(cpu) /\ index = l + 1 /\ (l = 0 <=> cpu = <<>>)
      BY <2>2, EmptySeq, LenProperties
    <3>5. index - 1 = l /\ (index = 1 <=> cpu = <<>>)
      BY <3>4
    <3>6. next = IF cpu = <<>> THEN Min(CpusNamed) ELSE CpuAfter(CpusNamed, cpu[Len(cpu)])
      BY <3>2, <3>3, <3>4, <3>5
    <3> HIDE DEF next, cpus
    <3>7. InTurn(Append(cpu, next), CpusNamed)
      BY <2>2, <3>1, <3>2, <3>3, <3>6, NextCpu
    <3>8. cpu' = Append(cpu, next) /\ CpusNamed' = CpusNamed
      BY <2>1, <2>4 DEF CpusNamed
    <3> QED
      BY <3>7, <3>8 DEF InTurn, Load
  <2>5. GoodAffinity' <=> GoodAffinity
    BY <2>1 DEF GoodAffinity
  <2>6. index' = Len(cpu') + 1
    BY <2>1, <2>2, <2>3
  <2>7. pc' \in {"start", "stuck"} /\ cmd' = cmd
    BY <2>1
  <2> QED
    BY <2>4, <2>5, <2>6, <2>7 DEF CpusInv
<1>5. CASE Run \/ UNCHANGED vars
  <2>1. /\ UNCHANGED <<cmd, cpu, index>>
        /\ \/ pc = "start" /\ pc' = "running"
           \/ pc' = pc
    BY <1>5 DEF Run, vars, process
  <2>2. CpusNamed' = CpusNamed /\ (GoodAffinity' <=> GoodAffinity)
    BY <2>1 DEF CpusNamed, GoodAffinity
  <2>3. InTurn(cpu, CpusNamed)' <=> InTurn(cpu, CpusNamed)
    BY <2>1, <2>2 DEF InTurn, Load
  <2> QED
    BY <2>1, <2>2, <2>3 DEF CpusInv
<1>6. CASE (\E c \in Commands : Start(c)) \/ (Stat /\ ~Exit)
  <2>1. /\ pc' \notin {"start", "stuck", "running"} /\ cpu' = cpu
        /\ pc \notin {"start", "stuck", "running"}
    BY <1>6 DEF Start, Stat
  <2> QED
    BY <1>2, <2>1
<1>7. CASE /\ Parsed \/ Check \/ RemoveOld \/ Create \/ Write \/ LaidOut \/ AllSetUp \/ LookUp
           /\ ~Exit
  <2>1. /\ pc' \notin {"start", "stuck", "running"} /\ cpu' = cpu
        /\ pc \notin {"start", "stuck", "running"}
    BY <1>7 DEF Parsed, Check, RemoveOld, Create, Write, LaidOut, AllSetUp, LookUp, process
  <2> QED
    BY <1>2, <2>1
<1> QED
  BY <1>1, <1>3, <1>4, <1>5, <1>6, <1>7 DEF Next, Step, Finish, Kill

(* Threads are pinned to CPUs in turn: at any time no CPU that -a names (or *)
(* that is online, without -a) has two threads more than another, however   *)
(* long the text and however many CPUs and threads there are.               *)
THEOREM ThreadsTakeTurns == SafetySpec => []RoundRobin
<1>1. Init => CpusInv
  BY DEF Init, CpusInv
<1>2. IInv /\ CpusInv /\ [Next]_vars => CpusInv'
  BY CpusStep
<1>3. IInv /\ CpusInv => RoundRobin
  <2>1. SUFFICES ASSUME CpusInv, pc \in {"start", "running"}, ~cmd.disable_affinity,
                        cmd.affinity_given => WellFormed(cmd.affinity)
                 PROVE  /\ Range(cpu) \subseteq CpusNamed
                        /\ \A c, d \in CpusNamed : Load(cpu, c) <= Load(cpu, d) + 1
    BY DEF RoundRobin, CpusNamed, Load
  <2>2. InTurn(cpu, CpusNamed)
    BY <2>1 DEF CpusInv, GoodAffinity
  <2>3. PICK q \in Nat : \A c \in CpusNamed : Load(cpu, c) \in {q, q + 1}
    BY <2>2 DEF InTurn
  <2>4. \A a, b \in {q, q + 1} : a <= b + 1
    OBVIOUS
  <2> QED
    BY <2>2, <2>3, <2>4 DEF InTurn
<1> QED
  BY <1>1, <1>2, <1>3, Invariance, PTL DEF SafetySpec

=============================================================================
