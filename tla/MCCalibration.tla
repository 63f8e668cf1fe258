--------------------------- MODULE MCCalibration ---------------------------
(* Calibration on small Timelines: a new case, one opened with what the    *)
(* user said, and four that an earlier version may have left behind: an    *)
(* exposure that names no predecessor; a comparison attributed to the user *)
(* though its probe looked at the host; and a failed probe whose exposure, *)
(* or comparison, names the good result of another.  The asserted claims   *)
(* are interchangeable.                                                    *)
EXTENDS Calibration, TLC

MCHistories ==
  LET observed == [kind |-> "probe_observed", probe |-> 1, domain |-> "source",
                   search |-> FALSE, status |-> "ok", seen |-> 0, scope |-> "none"]
      exposed == [observed EXCEPT !.kind = "probe_exposed"]
      looked == [observed EXCEPT !.domain = "host"]
      told == [looked EXCEPT !.kind = "probe_compared", !.domain = "user",
                             !.seen = 1, !.status = "unknown"]
      failed == [looked EXCEPT !.probe = 2, !.status = "failed"]
      borrowed == [failed EXCEPT !.seen = 1, !.status = "ok"]
  IN {<<>>,
      <<Evidence("initial_observation", "user", "none")>>,
      <<observed, exposed>>,
      <<looked, told>>,
      <<observed, failed, [borrowed EXCEPT !.kind = "probe_exposed"]>>,
      <<observed, failed, [borrowed EXCEPT !.kind = "probe_compared"]>>}

MCSymmetry == Permutations(Asserted)
============================================================================
