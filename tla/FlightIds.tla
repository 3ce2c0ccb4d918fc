----------------------------- MODULE FlightIds -----------------------------
(***************************************************************************)
(* How both engines number the requests they have in flight: a counter     *)
(* that wraps around and skips the keys the in-flight map still holds.     *)
(***************************************************************************)

EXTENDS Naturals

CONSTANT IdMod     \* ids are counted modulo IdMod (2^64 in kernel_aio.cc, 2^32 in posix_aio.cc)

Ids == 0 .. IdMod - 1

(* Partial functions from ids to operations: the std::map of the engine.    *)
FlightMap(Ops) == UNION {[D -> Ops] : D \in SUBSET Ids}

(* Mutant: the counter does not wrap around.                                *)
NextId_NoWrap(id) == id + 1

NextId(id) == (id + 1) % IdMod

(* Mutant: ids in use are not skipped.                                      *)
FreeId_NoSkip(id, used) == id

(* The first id from id on that is not a key of the map.                    *)
FreeId(id, used) ==
  LET skip == CHOOSE k \in Ids : /\ (id + k) % IdMod \notin used
                                 /\ \A j \in 0 .. k - 1 : (id + j) % IdMod \in used
  IN  (id + skip) % IdMod
=============================================================================
