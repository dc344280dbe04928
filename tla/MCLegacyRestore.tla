---------------------------- MODULE MCLegacyRestore ----------------------------
(* An instance of LegacyRestore for TLC.                                    *)
EXTENDS LegacyRestore

\* What the old panel may report: unlimited, or one byte left of a quota of two.
MCReports == {[total |-> 0, legacy |-> 0, ends |-> "never"],
              [total |-> 2, legacy |-> 1, ends |-> "later"]}
================================================================================
