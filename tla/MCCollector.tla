----------------------------- MODULE MCCollector -----------------------------
(* The collector and its store with a short ring, for TLC. *)
EXTENDS Collector

(* Bounds on interleavings.  Time and Reset touch the store alone, whose   *)
(* methods are one step each, so that it is enough to let them come while  *)
(* nothing is recorded; and the counters are not touched by time, so that  *)
(* it is enough to read them, and to record in several goroutines at once, *)
(* in the first period.                                                    *)
AtRest == read = 0 /\ \A r \in Recorders : rpc[r] = "idle"
Early == latest < (MaxBuckets + 1) * Resolution /\ now = latest

MCNext == \/ \E r \in Recorders : /\ Early \/ \A s \in Recorders \ {r} : rpc[s] = "idle"
                                  /\ Recording(r)
          \/ Early /\ ReadField
          \/ SnapshotReturns
          \/ AtRest /\ Storing
MCSpec == CollectorInit /\ [][MCNext]_cvars

(* The recorders are alike, and the run checks no liveness. *)
Symmetry == Permutations(Recorders)
==============================================================================
