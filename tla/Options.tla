------------------------------ MODULE Options --------------------------------
(***************************************************************************)
(* What a command line is worth: the syntax Options checks argument by     *)
(* argument (options.cc, options.h) and the settings Profile::             *)
(* parse_options makes of them (profile.cc).  As in CpuSets, a text is a   *)
(* sequence of numbers (runs of digits; a leading 0 is a number of its     *)
(* own) and of the other characters the parsers tell apart.                *)
(***************************************************************************)

EXTENDS TargetChecks, CpuSets

CONSTANTS
  Kibi,          \* 1024 in the code
  DefaultBlock   \* block size and stride of a new Target (64 KiB in the code)

ASSUME OptionsAssumption == {Kibi, DefaultBlock} \subseteq Nat \ {0}

(* Characters.                                                              *)
Ch == [K |-> -4, M |-> -5, G |-> -6, b |-> -7,               \* of sizes
       i |-> -8, h |-> -9, s |-> -10, d |-> -11,             \* of -s, -S, -Z
       z |-> -12, r |-> -13, k |-> -14, p |-> -15]           \* of -Z and -x

-----------------------------------------------------------------------------
(***************************************************************************)
(* Arguments.                                                              *)
(***************************************************************************)

(* The empty text passes.                                                   *)
is_numeric(t) ==
  /\ At(t, 1) = 0 => Len(t) = 1
  /\ \A j \in DOMAIN t : t[j] >= 0

valid_byte_size(t) ==
  /\ At(t, 1) > 0
  /\ Len(t) = 1 \/ (Len(t) = 2 /\ t[2] \in {Ch.K, Ch.M, Ch.G, Ch.b})

getSizeMultiplier(specifier, block_size) ==
  IF specifier = Ch.b THEN block_size
  ELSE IF specifier = Ch.K THEN Kibi
  ELSE IF specifier = Ch.M THEN Kibi * Kibi ELSE Kibi * Kibi * Kibi

(* strtoull does not go beyond the largest number.                          *)
strtoull(n) == IF n < 2 * OffHalf THEN n ELSE 2 * OffHalf - 1

(* An unsigned long long product, then a long long.  Negative is an         *)
(* assertion failure; a product that wraps to something positive passes.    *)
byte_size_from_arg(t, block_size) ==
  Off(strtoull(t[1]) * IF Len(t) = 1 THEN 1 ELSE getSizeMultiplier(t[2], block_size))

(* The options and their flags.  -D, -r, -w and -z do without an argument,  *)
(* which is the same as an empty one where the flags let that pass.         *)
NUMERIC   == {"d", "D", "F", "o", "t", "w", "W", "z"}
BYTE_SIZE == {"b", "B", "c", "f", "g", "r", "T"}
NON_ZERO  == {"b", "c", "f", "g", "r", "d", "o", "t"}
Switches  == {"L", "n", "v"}
Keys      == NUMERIC \cup BYTE_SIZE \cup Switches \cup {"a", "s", "S", "x", "Z"}

(* A command line: target files, and options with their arguments.          *)
CommandLine(Paths) == [paths : Seq(Paths), opts : Seq([key : Keys, arg : Seq(Int)])]

(* One option, which must not have been there before.                       *)
parse_arg(o) ==
  /\ o.key \in NUMERIC => is_numeric(o.arg)
  /\ o.key \in BYTE_SIZE => valid_byte_size(o.arg) \/ (o.key = "r" /\ o.arg = <<>>)
  /\ o.key \in NON_ZERO => ~(At(o.arg, 1) = 0 /\ At(o.arg, 2) <= 0)

parse_args(c) ==
  /\ \A j \in DOMAIN c.opts : parse_arg(c.opts[j])
  /\ \A j, l \in DOMAIN c.opts : c.opts[j].key = c.opts[l].key => j = l

Given(c, key) == \E j \in DOMAIN c.opts : c.opts[j].key = key

(* A null pointer, if the option is not there, is like the empty text to    *)
(* whoever has asked whether it is.                                         *)
get_arg(c, key) ==
  IF Given(c, key) THEN c.opts[CHOOSE j \in DOMAIN c.opts : c.opts[j].key = key].arg ELSE <<>>

(* The setting an option has as its argument, or the default: an empty      *)
(* argument sets nothing.                                                   *)
arg_to_number(c, key, block_size, default) ==
  LET t == get_arg(c, key) IN
    IF t = <<>> THEN default
    ELSE IF key \in NUMERIC THEN strtoull(t[1]) ELSE byte_size_from_arg(t, block_size)

(* It fits its type, or the process ends.  A seed is as wide as any number. *)
Converts(c, key, block_size) ==
  LET n == arg_to_number(c, key, block_size, 0) IN
    IF key \in NUMERIC \ {"z"} THEN n < UIntMod ELSE n >= 0

-----------------------------------------------------------------------------
(***************************************************************************)
(* parse_options.                                                          *)
(***************************************************************************)

block_size(c) == arg_to_number(c, "b", 1, DefaultBlock)

(* -s [i][size]: the size is looked at after the letter.                    *)
Interlocked(c) == ~Given(c, "r") /\ At(get_arg(c, "s"), 1) = Ch.i
StrideText(c) ==
  LET t == get_arg(c, "s") IN IF At(t, 1) = Ch.i THEN Tail(t) ELSE t

(* -r is first, and takes an argument that set nothing for one of 0.        *)
Stride(c) ==
  IF Given(c, "r")
  THEN LET n == arg_to_number(c, "r", block_size(c), DefaultBlock) IN
         IF n = 0 THEN block_size(c) ELSE n
  ELSE IF StrideText(c) = <<>> THEN block_size(c)
       ELSE byte_size_from_arg(StrideText(c), block_size(c))

GoodStride(c) ==
  (~Given(c, "r") /\ StrideText(c) # <<>>) =>
    /\ valid_byte_size(StrideText(c))
    /\ byte_size_from_arg(StrideText(c), block_size(c)) >= 0

(* -S: what follows an h is not read.                                       *)
GoodCaching(t) ==
  \A j \in DOMAIN t : t[j] \in {Ch.h, Ch.s, Ch.d} \/ \E l \in 1 .. j - 1 : t[l] = Ch.h
O_DIRECT(t) == \E j \in DOMAIN t : t[j] \in {Ch.h, Ch.d}

(* -Z: zeros and random bytes exclude each other.                           *)
GoodBuffers(t) ==
  /\ \A j \in DOMAIN t : t[j] \in {Ch.s, Ch.z, Ch.r}
  /\ ~\E j, l \in DOMAIN t : t[j] = Ch.z /\ t[l] = Ch.r

(* parse_options goes on with the command line.  Whether it returns false,  *)
(* calls exit or fails an assertion, nothing has been touched when not.     *)
Accepted(c) ==
  /\ parse_args(c)
  /\ c.paths # <<>>
  /\ \A key \in NUMERIC \cup BYTE_SIZE :
       Converts(c, key, IF key = "b" THEN 1 ELSE block_size(c))
  /\ ~(Given(c, "F") /\ Given(c, "t"))
  /\ GoodStride(c)
  /\ GoodCaching(get_arg(c, "S"))
  /\ ~(Given(c, "T") /\ Interlocked(c))
  /\ arg_to_number(c, "w", 0, 0) <= 100
  /\ Given(c, "x") => get_arg(c, "x") \in {<<Ch.k>>, <<Ch.p>>}
  /\ GoodBuffers(get_arg(c, "Z"))

(* What it keeps of it: the dummy target, and the options of the job the    *)
(* start of threads depends on.                                             *)
Settings(c) ==
  LET Number(key, default) == arg_to_number(c, key, block_size(c), default) IN
  [paths |-> c.paths, block_size |-> block_size(c), base_offset |-> Number("B", 0),
   create_file |-> Given(c, "c"), size |-> Number("c", 0), max_size |-> Number("f", 0),
   stride |-> Stride(c), use_random_alignment |-> Given(c, "r"),
   thread_offset |-> Number("T", 0), overlap |-> Number("o", 2),
   direct |-> O_DIRECT(get_arg(c, "S")),
   use_total_threads |-> Given(c, "F"), total_threads |-> Number("F", 0),
   threads_per_target |-> Number("t", 1),
   affinity_given |-> Given(c, "a"), affinity |-> get_arg(c, "a"),
   disable_affinity |-> Given(c, "n")]
=============================================================================
