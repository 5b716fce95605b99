---------------------------- MODULE MCThreadPool ----------------------------
(* Four threads, and jobs with fewer rows than threads, as many, and more,   *)
(* dividing evenly and not (with 5 rows the last thread has none);           *)
(* generations wrap at every second job.                                     *)
EXTENDS ThreadPool

MCRowCounts == {0, 1, 4, 5, 7}
MCMinRows == {1, 2}
=============================================================================
