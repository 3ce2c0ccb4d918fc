------------------------------- MODULE CpuSets -------------------------------
(***************************************************************************)
(* SysInfo::str_to_cpu_set (sys_info.cc): sets of CPUs written like        *)
(* "0-3,7".  A text is a sequence of numbers and of the other characters   *)
(* the parser tells apart.                                                 *)
(***************************************************************************)

EXTENDS Integers, Sequences

Dash  == -1
Comma == -2
Other == -3   \* any other character; it ends the text

At(s, i) == IF i \in DOMAIN s THEN s[i] ELSE Other

(* for (i = curr; i <= next; ++i): nothing when the range is reversed.      *)
CpuRange(lo, hi) == lo .. hi

(* What the loop still adds when its pointer is at position i.  It stops at *)
(* the first field that does not begin with a digit; of a range without an  *)
(* end nothing is added.                                                    *)
CpuSet(s) ==
  LET rest[i \in 1 .. Len(s) + 5] ==
        IF At(s, i) < 0 THEN {}
        ELSE IF At(s, i + 1) = Dash
          THEN IF At(s, i + 2) < 0 THEN {}
               ELSE CpuRange(s[i], s[i + 2]) \cup
                      (IF At(s, i + 3) = Comma THEN rest[i + 4] ELSE {})
          ELSE {s[i]} \cup (IF At(s, i + 1) = Comma THEN rest[i + 2] ELSE {})
  IN  rest[1]

(* What options.h says of a text: "comma-delimited groups of cpus ids".     *)
WellFormed(s) ==
  /\ Len(s) % 2 = 1
  /\ \A i \in DOMAIN s : IF i % 2 = 1 THEN s[i] >= 0 ELSE s[i] \in {Dash, Comma}
  /\ \A i \in DOMAIN s : s[i] = Dash => At(s, i + 2) # Dash

(* The CPUs it names: the numbers, and those between two joined by a dash.  *)
Named(s) ==
  {s[i] : i \in {j \in DOMAIN s : s[j] >= 0 /\ Dash \notin {At(s, j - 1), At(s, j + 1)}}}
    \cup UNION {s[i - 1] .. s[i + 1] : i \in {j \in DOMAIN s : s[j] = Dash}}
=============================================================================
