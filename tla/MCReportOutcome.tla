----------------------------- MODULE MCReportOutcome -----------------------------
EXTENDS ReportOutcome

Sided(reviewer, auditor) == [reviewer |-> reviewer, auditor |-> auditor]
Baseline(common, contested) == [common |-> common, contested |-> contested]

(* One dispute beside one requirement; two disputes; a baseline that can be
   covered to exactly nine parts in ten; and one where a dispute outweighs the
   requirements, so that the lanes can agree on all and disagree on these. *)
SmallBaselines ==
    {Baseline(<<i>>, <<Sided(r, a)>>) : i \in Importances,
        r \in {"critical", "supporting", "none"}, a \in {"critical", "material"}}
    \cup {Baseline(<<>>, <<Sided("critical", "none"), Sided("material", "supporting")>>),
          Baseline(<<"critical", "critical", "critical", "supporting">>, <<>>),
          Baseline(<<"supporting", "supporting">>, <<Sided("critical", "critical")>>)}

================================================================================
