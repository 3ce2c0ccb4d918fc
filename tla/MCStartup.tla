----------------------------- MODULE MCStartup -------------------------------
(* Instances of Startup for TLC: two files and a device, and command lines  *)
(* that differ from a plain one in the options that matter together.        *)
EXTENDS Startup

CONSTANTS f, g, dev

(* A command line whose options are opt, of those that are not NotThere.    *)
NotThere == <<Other>>
Opt(key, arg) == [key |-> key, arg |-> arg]
Line(paths, opt) ==
  [paths |-> paths, opts |-> SelectSeq(opt, LAMBDA o : o.arg # NotThere)]

Block == Opt("b", <<2>>)

(* Files: -c, -f, -B, one or two paths, the same path twice, a device; with *)
(* a K of eight bytes, 512 of them are more than an off_t can count, and    *)
(* 1025 come out as eight.                                                  *)
FileCommands ==
  {Line(p, <<Block, Opt("c", c), Opt("f", m), Opt("B", o)>>) :
     p \in {<<f>>, <<f, g>>, <<f, f>>, <<g, dev>>},
     c \in {NotThere, <<4>>, <<3, Ch.b>>, <<512, Ch.K>>, <<1025, Ch.K>>},
     m \in {NotThere, <<4>>, <<3, Ch.b>>}, o \in {NotThere, <<1>>, <<2, Ch.b>>}}

(* Threads: -t or -F, -T, -si, -Sd.  With a -T of 2048 bytes the place of   *)
(* a third thread is 4096, which comes out as -4096 and is accepted; that   *)
(* of a second is refused.                                                  *)
ThreadCommands ==
  {Line(p, <<Block, Opt("c", <<6>>), Opt(key, n), Opt("T", s), Opt("s", i), Opt("S", d)>>) :
     p \in {<<f>>, <<f, g>>}, key \in {"t", "F"}, n \in {<<1>>, <<2>>, <<3>>},
     s \in {NotThere, <<1>>, <<2>>}, i \in {NotThere, <<Ch.i>>},
     d \in {NotThere, <<Ch.d>>}}
  \cup {Line(<<f, g>>, <<Opt("b", <<1>>), Opt("c", <<6>>), Opt(key, n), Opt("T", s)>>) :
          key \in {"t", "F"}, n \in {<<1>>, <<2>>, <<3>>},
          s \in {<<128, Ch.K>>, <<256, Ch.K>>}}
  \cup {Line(<<f, g>>, <<Opt("F", n)>>) : n \in {<<0>>, <<>>}}

(* CPUs: -a and -n.                                                         *)
CpuCommands ==
  {Line(<<f, f>>, <<Block, Opt("t", <<2>>), Opt("a", a), Opt("n", n)>>) :
     a \in {<<>>, <<Comma>>, <<1>>, <<0, Dash, 2>>, <<0, Comma, 2, Dash, 3>>,
            <<3, Comma, 1, Comma, 0>>, <<2, Dash, 0>>, <<0, Comma, 7>>, <<1, Dash, Other>>},
     n \in {NotThere, <<>>}}

(* Offsets: -r, with or without an alignment, -s, and what -S reads of its  *)
(* argument.                                                                *)
OffsetCommands ==
  {Line(<<f>>, <<Block, Opt("r", a), Opt("s", s), Opt("T", t), Opt("S", d)>>) :
     a \in {NotThere, <<>>, <<1>>, <<2, Ch.b>>}, s \in {NotThere, <<Ch.i, 3>>, <<2, Ch.b>>, <<Ch.z>>},
     t \in {NotThere, <<2>>}, d \in {NotThere, <<Ch.h, Other>>, <<Ch.s>>, <<Other>>}}

(* What parse_options refuses.                                              *)
RefusedCommands ==
  {Line(<<>>, <<Block>>), Line(<<f>>, <<Opt("w", <<101>>)>>),
   Line(<<f>>, <<Opt("W", <<128>>)>>), Line(<<f>>, <<Opt("t", <<1>>), Opt("F", <<1>>)>>),
   Line(<<f>>, <<Block, Block>>), Line(<<f>>, <<Opt("c", <<0>>)>>),
   Line(<<f>>, <<Opt("o", <<0, 5>>)>>), Line(<<f>>, <<Opt("x", <<Ch.k, Ch.p>>)>>),
   Line(<<f>>, <<Opt("Z", <<Ch.z, Ch.r>>)>>)}

MCCommands ==
  FileCommands \cup ThreadCommands \cup CpuCommands \cup OffsetCommands \cup RefusedCommands

(* What is there before diskspd is first run.                               *)
MCFileSizes == {Absent, 3, 7}
=============================================================================
