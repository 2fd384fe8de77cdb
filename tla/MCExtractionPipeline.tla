----------------------- MODULE MCExtractionPipeline -----------------------
(***************************************************************************)
(* Small instances of ExtractionPipeline.  Clocks count quanta of          *)
(* job_timeout: the running threshold is two of them by definition, the    *)
(* pending threshold (30 minutes) three, arq's in-progress key outlives    *)
(* the job's deadline and is gone at the next quantum.                     *)
(***************************************************************************)
EXTENDS ExtractionPipeline, TLC

CONSTANTS u1, u2, p1, p2, c1, c2, s1, s2

(* Two uploads of one title, so of one conversations row.                  *)
PidOfTwin == u1 :> p1 @@ u2 :> p2
OneConv == u1 :> c1 @@ u2 :> c1
OneSource == u1 :> s1 @@ u2 :> s1

(* The same title from two platforms: one row, two slots.                  *)
TwoSources == u1 :> s1 @@ u2 :> s2

(* One platform id under two titles: two rows compete for it; two requests *)
(* with the same upload compete for its slot.                              *)
SamePid == u1 :> p1 @@ u2 :> p1
TwoConvs == u1 :> c1 @@ u2 :> c2

Together == {{u1, u2}}
Apart == {{u1}, {u2}}

Interchangeable == Permutations(Jobs) \cup Permutations(Requests)
===========================================================================
