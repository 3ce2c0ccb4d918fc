------------------------------ MODULE CpuUsage ------------------------------
(***************************************************************************)
(* The CPU usage of the main phase: run_job reads the times every CPU has  *)
(* spent in each state before and after it (SysInfo::get_cpu_stats) and    *)
(* divides the differences by their sum.  A share is a fraction            *)
(* [num, den]; den = 0 stands for the NaN of the division in the code.     *)
(***************************************************************************)

EXTENDS Integers, Functions

(* The times of a CPU in /proc/stat, and the columns made of them.          *)
Times   == {"user", "nice", "kernel", "idle", "iowait"}
Columns == {"Usage", "User", "Kernel", "IO Wait", "Idle"}

(* Mutant: nice counts as usage but not as user time.                       *)
Counted_NoNice(column) ==
  CASE column = "Usage"   -> {"user", "nice", "kernel"}
    [] column = "User"    -> {"user"}
    [] column = "Kernel"  -> {"kernel"}
    [] column = "IO Wait" -> {"iowait"}
    [] column = "Idle"    -> {"idle"}

(* The times a column counts.                                               *)
Counted(column) ==
  CASE column = "Usage"   -> {"user", "nice", "kernel"}
    [] column = "User"    -> {"user", "nice"}
    [] column = "Kernel"  -> {"kernel"}
    [] column = "IO Wait" -> {"iowait"}
    [] column = "Idle"    -> {"idle"}

Spent(init, end, times) == SumFunctionOnSet(end, times) - SumFunctionOnSet(init, times)

(* cpu_usage_percentages of one CPU.                                        *)
Usage(init, end) ==
  [c \in Columns |-> [num |-> Spent(init, end, Counted(c)), den |-> Spent(init, end, Times)]]

AddShares(x, y) == [num |-> x.num * y.den + y.num * x.den, den |-> x.den * y.den]

(* Two shares are the same number, if they are numbers.                     *)
SameShare(x, y) == x.num * y.den = y.num * x.den
=============================================================================
